---- MODULE Spec2Model ----
(***************************************************************************)
(* PlayMetric analytics core (backend-python/app): the churn predictor,    *)
(* the analytics engine, the level analyzer and the recommendation engine. *)
(*                                                                         *)
(* Conventions of the model                                                *)
(*  - a Python dict is a TLA+ record (a function on strings); a key that   *)
(*    is missing from the dict is missing from the record's DOMAIN, and    *)
(*    d.get(k, dflt) is Get(d, k, dflt);                                   *)
(*  - a datetime is an integer number of ticks (TicksPerDay ticks a day),  *)
(*    a timedelta is a difference of ticks, timedelta.days is the floor    *)
(*    of the difference in days;                                           *)
(*  - a float that the code computes as a quotient is kept as an exact     *)
(*    pair <<numerator, denominator>>; round(x, k) is round-half-even of   *)
(*    the exact value, returned as an integer number of 10^-k units;       *)
(*  - a probability is an integer number of 1/10000 before rounding and    *)
(*    per-mille after round(p, 3).                                         *)
(***************************************************************************)
EXTENDS Integers, Sequences, FiniteSets, TLC

VARIABLES
    \* ChurnPredictor instance (churn_predictor.py:30-50)
    model,              \* the classifier object
    scaler,             \* the StandardScaler object
    is_trained,         \* True: trained mode, False: rule-based mode
    feature_names,      \* the list of feature names
    artifact,           \* the file at the model path
    churn_call,         \* the last ChurnPredictor call: its arguments and its outcome
    \* the snapshot of records the caller hands to the engines (main.py:313-318)
    db_users,           \* db.users: list of user profile documents
    db_game_events,     \* db.game_events: list of session events
    db_level_events,    \* db.level_events: list of level events
    db_economy_events,  \* db.economy_events: list of economy events
    response,           \* the last engine call on the snapshot and its outcome
    \* AIInsightsEngine instance (ai_insights_engine.py:31-32)
    insights_scaler,    \* the StandardScaler object of the insights engine
    \* calls of the ChurnPredictor in flight, statement by statement
    pc                  \* the next statement of the writing call and of the prediction

churn_vars == <<model, scaler, is_trained, feature_names, artifact, churn_call>>
snapshot_vars == <<db_users, db_game_events, db_level_events, db_economy_events>>

vars == <<churn_vars, snapshot_vars, response, insights_scaler, pc>>

----------------------------------------------------------------------------
(* Bounds of the model *)

\* ticks per day: the resolution of the model's clock
TicksPerDay == 2

----------------------------------------------------------------------------
(* Python built-ins *)

\* dict.get(k, dflt)
Get(d, k, dflt) == IF k \in DOMAIN d THEN d[k] ELSE dflt

\* the value None where a string is expected (a missing userId)
NoneVal == "<None>"

\* timedelta.days: whole days, rounded towards minus infinity
DaysOf(delta) == delta \div TicksPerDay

\* timedelta(days=n)
TimeDelta(n) == n * TicksPerDay

\* round(n / d, k) scaled by 10^k is RoundDiv(n * 10^k, d): round half to even
RoundDiv(n, d) ==
    LET q == n \div d
        r == n % d
    IN  IF 2 * r < d THEN q
        ELSE IF 2 * r > d THEN q + 1
        ELSE IF q % 2 = 0 THEN q ELSE q + 1

\* abs(n)
Abs(n) == IF n < 0 THEN 0 - n ELSE n

\* sum(xs) of a list of integers
RECURSIVE SumSeq(_)
SumSeq(xs) ==
    IF xs = << >> THEN 0
    ELSE IF Len(xs) = 1 THEN xs[1]
    ELSE LET half == Len(xs) \div 2
         IN  SumSeq(SubSeq(xs, 1, half)) + SumSeq(SubSeq(xs, half + 1, Len(xs)))

\* " ".join(texts): each text is a list of words
RECURSIVE JoinWords(_)
JoinWords(texts) == IF texts = << >> THEN << >> ELSE Head(texts) \o JoinWords(Tail(texts))

\* pat in text (substring test, on words)
Contains(text, pat) ==
    \E i \in 1..(Len(text) - Len(pat) + 1) : SubSeq(text, i, i + Len(pat) - 1) = pat


\* max(xs) of a non-empty list of integers
MaxSeq(xs) ==
    CHOOSE m \in {xs[i] : i \in 1..Len(xs)} : \A i \in 1..Len(xs) : xs[i] <= m

\* list.sort / sorted on records with an integer key k: stable, ascending; an
\* element's place is the number of elements that go before it
SortByKey(xs) ==
    LET n == Len(xs)
        place ==
            [i \in 1..n |->
                1 + Cardinality({j \in 1..n : \/ xs[j].k < xs[i].k
                                              \/ xs[j].k = xs[i].k /\ j < i})]
    IN  [r \in 1..n |-> xs[CHOOSE i \in 1..n : place[i] = r]]

\* sorted(xs, key=..., reverse=True): stable, descending
SortByKeyDesc(xs) ==
    LET neg == SortByKey([i \in 1..Len(xs) |-> [xs[i] EXCEPT !.k = 0 - @]])
    IN  [i \in 1..Len(neg) |-> [neg[i] EXCEPT !.k = 0 - @]]

\* xs[:n]
Take(xs, n) == SubSeq(xs, 1, IF Len(xs) < n THEN Len(xs) ELSE n)

\* the keys of a dict filled in the order of xs: each value once, by first occurrence
KeysInOrder(xs) ==
    LET firsts ==
            SelectSeq([i \in 1..Len(xs) |-> i],
                      LAMBDA i : \A j \in 1..(i - 1) : xs[j] # xs[i])
    IN  [r \in 1..Len(firsts) |-> xs[firsts[r]]]

\* the number of i with xs[i] = x
CountOf(xs, x) == Cardinality({i \in 1..Len(xs) : xs[i] = x})

\* d.get(k), where the value is a datetime: None is << >>, a datetime t is <<t>>
GetOpt(d, k) == IF k \in DOMAIN d THEN <<d[k]>> ELSE << >>

\* event.get('globalParams', {}).get('userId'): None when missing
UserIdOf(event) == Get(Get(event, "globalParams", << >>), "userId", NoneVal)

\* the truth value of a user id: None and '' are false
Truthy(id) == id # NoneVal /\ id # ""

----------------------------------------------------------------------------
(* Exact quotients: the float n / d is the pair <<n, d>>, d > 0, in lowest terms *)

RECURSIVE GCD(_, _)
GCD(a, b) == IF b = 0 THEN a ELSE GCD(b, a % b)

Frac(n, d) == LET g == GCD(Abs(n), d) IN <<n \div g, d \div g>>
FracAdd(x, y) == Frac(x[1] * y[2] + y[1] * x[2], x[2] * y[2])
FracSub(x, y) == Frac(x[1] * y[2] - y[1] * x[2], x[2] * y[2])
FracScale(k, x) == Frac(k * x[1], x[2])
FracDiv(x, k) == Frac(x[1], x[2] * k)
FracLess(x, y) == x[1] * y[2] < y[1] * x[2]
FracMin(x, y) == IF FracLess(y, x) THEN y ELSE x
\* round(x, k) in units of 10^-k: scale is 10^k
FracRound(x, scale) == RoundDiv(x[1] * scale, x[2])

----------------------------------------------------------------------------
(* The clock *)

\* datetime.now(): the instant of the calls; every sampled timestamp is an offset from it
Now == 0

\* datetime.min (year 1), some 2000 years before now
DateTimeMin == Now - TimeDelta(739000)

----------------------------------------------------------------------------
(* Sample records: the snapshot the caller hands to the core *)

\* a user profile document
MkUser(uid, firstAgo, lastAgo, sessions, events) ==
    [userId |-> uid, platform |-> "android",
     firstSeen |-> Now - firstAgo, lastSeen |-> Now - lastAgo,
     totalSessions |-> sessions, totalEvents |-> events]

\* a user profile with only the chosen keys (the others are missing)
Only(d, keys) == [k \in (DOMAIN d) \cap keys |-> d[k]]

\* a session event of the game_events collection
MkSessionEvent(uid, sid, ago, durationMs) ==
    [eventType |-> "GAME_SESSION_START",
     globalParams |-> [userId |-> uid, sessionId |-> sid, timestamp |-> Now - ago,
                       sessionDuration |-> durationMs]]

\* a level event of the level_events collection
MkLevelEvent(uid, lid, num, done, perfect, ago, durationMs) ==
    [eventType |-> IF done THEN "LEVEL_COMPLETE" ELSE "LEVEL_FAIL",
     levelId |-> lid, levelNumber |-> num, completed |-> done,
     perfectCompletion |-> perfect, levelDuration |-> durationMs,
     globalParams |-> [userId |-> uid, sessionId |-> "s1", timestamp |-> Now - ago]]

\* an economy event of the economy_events collection
MkEconomyEvent(uid, value, ago) ==
    [eventType |-> "ECONOMY_PURCHASE", realMoneyValue |-> value,
     currencyType |-> "gems", amount |-> 10,
     globalParams |-> [userId |-> uid, sessionId |-> "s1", timestamp |-> Now - ago]]

\* str.startswith on the event types the collections hold
StartsWith(eventType, prefix) ==
    CASE prefix = "LEVEL_" -> eventType \in {"LEVEL_START", "LEVEL_COMPLETE", "LEVEL_FAIL"}
      [] prefix = "ECONOMY_" -> eventType \in {"ECONOMY_PURCHASE", "ECONOMY_SPEND"}
      [] OTHER -> FALSE

----------------------------------------------------------------------------
(* ChurnPredictor (models/churn_predictor.py) *)

FeatureNames ==
    <<"days_since_last_session", "total_sessions", "avg_session_duration",
      "level_completion_rate", "total_events", "days_since_registration",
      "total_purchases", "purchase_amount", "engagement_trend",
      "recent_activity_score">>

\* ChurnPredictor._parse_timestamp
_parse_timestamp(event) == Get(Get(event, "globalParams", << >>), "timestamp", Now)

\* ChurnPredictor._calculate_activity_score: the sum of e^(-days_ago/7) over the
\* events, kept as the number of events per days_ago (the sum is a function of it)
_calculate_activity_score(events, now) ==
    LET ages == {DaysOf(now - _parse_timestamp(events[i])) : i \in 1..Len(events)}
    IN  [d \in ages |->
            Cardinality({i \in 1..Len(events) : DaysOf(now - _parse_timestamp(events[i])) = d})]

\* ChurnPredictor.extract_features: the 10 features, by name
extract_features(user_data, events_data) ==
    LET now == Now
        last_seen == Get(user_data, "lastSeen", now)
        days_since_last == DaysOf(now - last_seen)
        first_seen == Get(user_data, "firstSeen", now)
        days_since_registration == DaysOf(now - first_seen) + 1
        total_sessions == Get(user_data, "totalSessions", 0)
        total_events == Get(user_data, "totalEvents", 0)
        HasDuration(e) == Get(Get(e, "globalParams", << >>), "sessionDuration", 0) # 0
        session_durations == SelectSeq(events_data, HasDuration)
        duration_sum ==
            SumSeq([i \in 1..Len(session_durations) |->
                        session_durations[i].globalParams.sessionDuration])
        IsLevel(e) == StartsWith(Get(e, "eventType", ""), "LEVEL_")
        level_events == SelectSeq(events_data, IsLevel)
        IsCompleted(e) == Get(e, "completed", FALSE)
        level_completes == Len(SelectSeq(level_events, IsCompleted))
        IsEconomy(e) == StartsWith(Get(e, "eventType", ""), "ECONOMY_")
        purchase_events == SelectSeq(events_data, IsEconomy)
        purchase_amount ==
            SumSeq([i \in 1..Len(purchase_events) |->
                        Get(purchase_events[i], "realMoneyValue", 0)])
        seven_days_ago == now - TimeDelta(7)
        fourteen_days_ago == now - TimeDelta(14)
        IsRecent(e) == _parse_timestamp(e) > seven_days_ago
        IsPrevious(e) ==
            fourteen_days_ago < _parse_timestamp(e) /\ _parse_timestamp(e) <= seven_days_ago
        recent_count == Len(SelectSeq(events_data, IsRecent))
        previous_count == Len(SelectSeq(events_data, IsPrevious))
    IN  [days_since_last_session |-> days_since_last,
         total_sessions |-> total_sessions,
         avg_session_duration |->
            IF session_durations # << >>
            THEN <<duration_sum, 1000 * Len(session_durations)>> ELSE <<0, 1>>,
         level_completion_rate |->
            IF level_events # << >> THEN <<level_completes, Len(level_events)>> ELSE <<0, 1>>,
         total_events |-> total_events,
         days_since_registration |-> days_since_registration,
         total_purchases |-> Len(purchase_events),
         purchase_amount |-> purchase_amount,
         engagement_trend |->
            IF previous_count > 0 THEN <<recent_count - previous_count, previous_count>>
            ELSE IF recent_count = 0 THEN <<0, 1>> ELSE <<1, 1>>,
         recent_activity_score |-> _calculate_activity_score(events_data, now)]

\* a risk factor or recommendation string: its words, and the number formatted into it
Text(words, arg) == [words |-> words, arg |-> arg]

WordsOf(texts) == JoinWords([i \in 1..Len(texts) |-> texts[i].words])

\* ChurnPredictor._generate_recommendations
_generate_recommendations(risk_factors, user_data) ==
    LET risk_text == WordsOf(risk_factors)
        recommendations ==
            (IF Contains(risk_text, <<"Inactive">>) \/ Contains(risk_text, <<"Reduced", "activity">>)
             THEN <<"Send re-engagement notification with special reward",
                    "Offer limited-time bonus or exclusive content">> ELSE << >>)
            \o
            (IF Contains(risk_text, <<"Low", "level", "completion">>)
             THEN <<"Provide hints or skip option for difficult levels",
                    "Adjust level difficulty based on player skill">> ELSE << >>)
            \o
            (IF Contains(risk_text, <<"Declining", "engagement">>)
             THEN <<"Introduce new content or game modes",
                    "Create time-limited events to boost engagement">> ELSE << >>)
            \o
            (IF Contains(risk_text, <<"No", "purchases">>)
             THEN <<"Offer first-purchase discount or special offer",
                    "Show value of premium features through gameplay">> ELSE << >>)
            \o
            (IF Contains(risk_text, <<"Low", "overall", "engagement">>)
             THEN <<"Improve onboarding experience",
                    "Add social features or multiplayer modes">> ELSE << >>)
    IN  IF recommendations # << >> THEN recommendations
        ELSE <<"Continue monitoring player behavior">>

\* ChurnPredictor._identify_risk_factors
_identify_risk_factors(features, user_data, events_data) ==
    LET days_since_last == features.days_since_last_session
        total_sessions == features.total_sessions
        level_completion_rate == features.level_completion_rate
        engagement_trend == features.engagement_trend
        total_purchases == features.total_purchases
        factors ==
            (IF days_since_last > 7
             THEN <<Text(<<"No", "activity", "for", "{}", "days">>, days_since_last)>>
             ELSE IF days_since_last > 3
             THEN <<Text(<<"Reduced", "activity", "({}", "days", "since", "last", "session)">>,
                         days_since_last)>>
             ELSE << >>)
            \o
            (IF total_sessions < 5
             THEN <<Text(<<"Low", "overall", "engagement">>, 0)>> ELSE << >>)
            \o
            (IF 10 * level_completion_rate[1] < 3 * level_completion_rate[2]
             THEN <<Text(<<"Low", "level", "completion", "rate", "({})">>,
                         RoundDiv(1000 * level_completion_rate[1], level_completion_rate[2]))>>
             ELSE << >>)
            \o
            (IF 10 * engagement_trend[1] < (-3) * engagement_trend[2]
             THEN <<Text(<<"Declining", "engagement", "(down", "{})">>,
                         RoundDiv(1000 * (0 - engagement_trend[1]), engagement_trend[2]))>>
             ELSE << >>)
            \o
            (IF total_purchases = 0 /\ total_sessions > 10
             THEN <<Text(<<"No", "purchases", "despite", "active", "play">>, 0)>> ELSE << >>)
    IN  IF factors # << >> THEN factors
        ELSE <<Text(<<"No", "significant", "risk", "factors", "detected">>, 0)>>

\* _rule_based_prediction with the inactivity thresholds read as "at least":
\* the variant that C6's boundary cases (14, 7 and 3 days) tell apart
RuleBasedInclusive(user_data, events_data) ==
    LET now == Now
        last_seen == Get(user_data, "lastSeen", now)
        days_inactive == DaysOf(now - last_seen)
        total_sessions == Get(user_data, "totalSessions", 0)
        churn_prob ==
            IF days_inactive >= 14 THEN 900
            ELSE IF days_inactive >= 7 THEN 700
            ELSE IF days_inactive >= 3 THEN 400
            ELSE IF total_sessions < 3 THEN 500
            ELSE 200
    IN  [churn_probability |-> churn_prob,
         churn_risk |-> IF churn_prob > 600 THEN "high"
                        ELSE IF churn_prob > 300 THEN "medium" ELSE "low",
         risk_factors |-> << >>,
         recommendations |-> << >>,
         confidence |-> 700]

\* ChurnPredictor._rule_based_prediction; probabilities and confidence per mille
_rule_based_prediction(user_data, events_data) ==
    LET now == Now
        last_seen == Get(user_data, "lastSeen", now)
        days_inactive == DaysOf(now - last_seen)
        total_sessions == Get(user_data, "totalSessions", 0)
        churn_prob ==
            IF days_inactive > 14 THEN 900
            ELSE IF days_inactive > 7 THEN 700
            ELSE IF days_inactive > 3 THEN 400
            ELSE IF total_sessions < 3 THEN 500
            ELSE 200
        risk_factors ==
            (IF days_inactive > 7
             THEN <<Text(<<"Inactive", "for", "{}", "days">>, days_inactive)>> ELSE << >>)
            \o
            (IF total_sessions < 5
             THEN <<Text(<<"Low", "engagement", "(few", "sessions)">>, 0)>> ELSE << >>)
    IN  [churn_probability |-> churn_prob,
         churn_risk |-> IF churn_prob > 600 THEN "high"
                        ELSE IF churn_prob > 300 THEN "medium" ELSE "low",
         risk_factors |-> IF risk_factors # << >> THEN risk_factors
                          ELSE <<Text(<<"No", "significant", "risk", "factors">>, 0)>>,
         recommendations |-> _generate_recommendations(risk_factors, user_data),
         confidence |-> 700]

\* the outcome of a call: the exception it raised ("none": it returned) and what it returned
Returned(value) == [raised |-> "none", value |-> value]
Raised(exception) == [raised |-> exception, value |-> << >>]

\* ChurnPredictor.predict_churn_risk; churn_prob is model.predict_proba(...)[0][1],
\* the classifier's answer, in 1/10000
predict_churn_risk(user_data, events_data, churn_prob) ==
    IF ~is_trained THEN Returned(_rule_based_prediction(user_data, events_data))
    ELSE
        LET features == extract_features(user_data, events_data)
            risk_level ==
                IF churn_prob < 2500 THEN "low"
                ELSE IF churn_prob < 5000 THEN "medium"
                ELSE IF churn_prob < 7500 THEN "high"
                ELSE "critical"
            risk_factors == _identify_risk_factors(features, user_data, events_data)
            recommendations == _generate_recommendations(risk_factors, user_data)
            other == 10000 - churn_prob
        IN  IF ~scaler.fitted THEN Raised("NotFittedError")
            ELSE IF ~model.fitted THEN Raised("NotFittedError")
            ELSE IF model.classes < 2 THEN Raised("IndexError")
            ELSE Returned(
                [churn_probability |-> RoundDiv(churn_prob, 10),
                 churn_risk |-> risk_level,
                 risk_factors |-> risk_factors,
                 recommendations |-> recommendations,
                 confidence |-> RoundDiv(IF churn_prob > other THEN churn_prob ELSE other, 10)])

\* the dict save_model pickles
ModelData == [model |-> model, scaler |-> scaler, is_trained |-> is_trained,
              feature_names |-> feature_names]

\* a file: present or not, unpicklable or holding the pickled dict
File(present, readable, data) == [exists |-> present, readable |-> readable, data |-> data]

\* __init__ (churn_predictor.py:30-50)
NewModel == [fitted |-> FALSE, classes |-> 0]
NewScaler == [fitted |-> FALSE]

\* the artifacts the run may find on disk at startup: none, an unreadable one, one
\* saved by a trained or by an untrained predictor, and ones lacking a key
TrainedBlob == [model |-> [fitted |-> TRUE, classes |-> 2], scaler |-> [fitted |-> TRUE],
                is_trained |-> TRUE, feature_names |-> FeatureNames]
UntrainedBlob == [model |-> NewModel, scaler |-> NewScaler,
                  is_trained |-> FALSE, feature_names |-> FeatureNames]
BlobKeys == {"model", "scaler", "is_trained", "feature_names"}
StartupArtifacts ==
    {File(FALSE, FALSE, << >>), File(TRUE, FALSE, << >>),
     File(TRUE, TRUE, TrainedBlob), File(TRUE, TRUE, UntrainedBlob)}
    \cup {File(TRUE, TRUE, Only(TrainedBlob, BlobKeys \ {k})) : k \in BlobKeys}

----------------------------------------------------------------------------
(* AnalyticsEngine (services/analytics_engine.py) *)
(* Units of the results: a count is an integer; round(x, 2) is in hundredths, *)
(* round(x, 3) in thousandths; money is in whole currency units on the events *)
(* and in hundredths once rounded.                                            *)

\* AnalyticsEngine._parse_date
_parse_date(date_str) == IF date_str # << >> THEN date_str[1] ELSE DateTimeMin

\* the daily count with a missing lastSeen taken as now
DauDefaultingToNow(users, now) ==
    LET yesterday == now - TimeDelta(1)
    IN  Len(SelectSeq(users,
                      LAMBDA u : (IF GetOpt(u, "lastSeen") = << >> THEN now
                                  ELSE _parse_date(GetOpt(u, "lastSeen"))) > yesterday))

\* AnalyticsEngine._calculate_dau
_calculate_dau(users, now) ==
    LET yesterday == now - TimeDelta(1)
    IN  Len(SelectSeq(users, LAMBDA u : _parse_date(GetOpt(u, "lastSeen")) > yesterday))

\* AnalyticsEngine._calculate_wau
_calculate_wau(users, now) ==
    LET week_ago == now - TimeDelta(7)
    IN  Len(SelectSeq(users, LAMBDA u : _parse_date(GetOpt(u, "lastSeen")) > week_ago))

\* AnalyticsEngine._calculate_mau
_calculate_mau(users, now) ==
    LET month_ago == now - TimeDelta(30)
    IN  Len(SelectSeq(users, LAMBDA u : _parse_date(GetOpt(u, "lastSeen")) > month_ago))

\* AnalyticsEngine._count_new_users
_count_new_users(users, now, days) ==
    LET cutoff == now - TimeDelta(days)
    IN  Len(SelectSeq(users, LAMBDA u : _parse_date(GetOpt(u, "firstSeen")) > cutoff))

\* AnalyticsEngine._empty_session_metrics
_empty_session_metrics ==
    [total_sessions |-> 0, avg_session_duration_minutes |-> 0,
     median_session_duration_minutes |-> 0, longest_session_minutes |-> 0,
     total_playtime_hours |-> 0]

\* np.median of a non-empty list of integers, as twice its value
MedianTimes2(xs) ==
    LET sorted == SortByKey([i \in 1..Len(xs) |-> [k |-> xs[i]]])
        n == Len(xs)
    IN  IF n % 2 = 1 THEN 2 * sorted[(n + 1) \div 2].k
        ELSE sorted[n \div 2].k + sorted[n \div 2 + 1].k

\* AnalyticsEngine._calculate_session_metrics; durations are in milliseconds on
\* the events and in minutes (hundredths) or hours (hundredths) in the result
_calculate_session_metrics(game_events) ==
    IF game_events = << >> THEN _empty_session_metrics
    ELSE
        LET gp(e) == Get(e, "globalParams", << >>)
            active_sessions ==
                {gp(game_events[i]).sessionId :
                    i \in {j \in 1..Len(game_events) :
                            "sessionId" \in DOMAIN gp(game_events[j])
                            /\ Truthy(gp(game_events[j]).sessionId)}}
            with_duration ==
                SelectSeq(game_events, LAMBDA e : Get(gp(e), "sessionDuration", 0) > 0)
            session_durations ==
                [i \in 1..Len(with_duration) |-> gp(with_duration[i]).sessionDuration]
            n == Len(session_durations)
        IN  [total_sessions |-> Cardinality(active_sessions),
             avg_session_duration_minutes |->
                IF n > 0 THEN RoundDiv(SumSeq(session_durations) * 100, n * 60000) ELSE 0,
             median_session_duration_minutes |->
                IF n > 0 THEN RoundDiv(MedianTimes2(session_durations) * 100, 2 * 60000) ELSE 0,
             longest_session_minutes |->
                IF n > 0 THEN RoundDiv(MaxSeq(session_durations) * 100, 60000) ELSE 0,
             total_playtime_hours |->
                IF n > 0 THEN RoundDiv(SumSeq(session_durations) * 100, 60 * 60000) ELSE 0]

\* AnalyticsEngine._empty_level_metrics
_empty_level_metrics ==
    [total_level_attempts |-> 0, total_level_completions |-> 0,
     overall_completion_rate |-> 0, max_level_reached |-> 0,
     unique_levels_played |-> 0, most_played_levels |-> << >>]

\* AnalyticsEngine._calculate_level_metrics
_calculate_level_metrics(level_events) ==
    IF level_events = << >> THEN _empty_level_metrics
    ELSE
        LET total_attempts == Len(level_events)
            completed == Len(SelectSeq(level_events, LAMBDA e : Get(e, "completed", FALSE)))
            numbered == SelectSeq(level_events, LAMBDA e : Get(e, "levelNumber", 0) > 0)
            level_nums == [i \in 1..Len(numbered) |-> numbered[i].levelNumber]
            \* level_counts.items(), in the dict's insertion order
            level_keys == KeysInOrder(level_nums)
            level_counts ==
                [i \in 1..Len(level_keys) |->
                    [level |-> level_keys[i], k |-> CountOf(level_nums, level_keys[i])]]
            most_played == Take(SortByKeyDesc(level_counts), 5)
        IN  [total_level_attempts |-> total_attempts,
             total_level_completions |-> completed,
             overall_completion_rate |->
                IF total_attempts > 0 THEN RoundDiv(completed * 1000, total_attempts) ELSE 0,
             max_level_reached |-> IF level_keys # << >> THEN MaxSeq(level_keys) ELSE 0,
             unique_levels_played |-> Len(level_keys),
             most_played_levels |->
                [i \in 1..Len(most_played) |->
                    [level |-> most_played[i].level, attempts |-> most_played[i].k]]]

\* AnalyticsEngine._empty_revenue_metrics
_empty_revenue_metrics ==
    [total_revenue |-> 0, total_transactions |-> 0, paying_users |-> 0,
     avg_transaction_value |-> 0, revenue_per_paying_user |-> 0,
     virtual_currency_stats |-> << >>]

\* AnalyticsEngine._calculate_revenue_metrics
_calculate_revenue_metrics(economy_events) ==
    IF economy_events = << >> THEN _empty_revenue_metrics
    ELSE
        LET purchases == SelectSeq(economy_events, LAMBDA e : Get(e, "realMoneyValue", 0) > 0)
            total_revenue == SumSeq([i \in 1..Len(purchases) |-> purchases[i].realMoneyValue])
            total_transactions == Len(purchases)
            payers == {UserIdOf(purchases[i]) :
                        i \in {j \in 1..Len(purchases) : Truthy(UserIdOf(purchases[j]))}}
            paying_users == Cardinality(payers)
            currencies == {Get(economy_events[i], "currencyType", "unknown") :
                            i \in 1..Len(economy_events)}
            of(c) == SelectSeq(economy_events, LAMBDA e : Get(e, "currencyType", "unknown") = c)
        IN  [total_revenue |-> total_revenue * 100,
             total_transactions |-> total_transactions,
             paying_users |-> paying_users,
             avg_transaction_value |->
                IF total_transactions > 0
                THEN RoundDiv(total_revenue * 100, total_transactions) ELSE 0,
             revenue_per_paying_user |->
                IF paying_users > 0 THEN RoundDiv(total_revenue * 100, paying_users) ELSE 0,
             virtual_currency_stats |->
                [c \in currencies |->
                    [count |-> Len(of(c)),
                     amount |-> SumSeq([i \in 1..Len(of(c)) |-> Get(of(c)[i], "amount", 0)])]]]

\* AnalyticsEngine._calculate_platform_distribution
_calculate_platform_distribution(users) ==
    LET platforms == {Get(users[i], "platform", "unknown") : i \in 1..Len(users)}
        total == Len(users)
        count(p) == Cardinality({i \in 1..Len(users) : Get(users[i], "platform", "unknown") = p})
    IN  [p \in platforms |->
            [count |-> count(p),
             percentage |-> IF total > 0 THEN RoundDiv(count(p) * 10000, total) ELSE 0]]

\* the horizons of the retention report
RetentionDays == <<1, 7, 30>>

\* the cohort taken as every user, whatever the tenure
EligibleUsersAll(users, now) == users

\* AnalyticsEngine._calculate_retention_rates, lines 273-276: eligible_users
EligibleUsers(users, now) ==
    SelectSeq(users, LAMBDA u : DaysOf(now - _parse_date(GetOpt(u, "firstSeen"))) >= 30)

\* AnalyticsEngine._calculate_retention_rates
_calculate_retention_rates(users, events, now) ==
    LET gp(e) == Get(e, "globalParams", << >>)
        \* user_activity[user_id]: the timestamps of the user's events
        tracked == SelectSeq(events, LAMBDA e : Truthy(UserIdOf(e)) /\ "timestamp" \in DOMAIN gp(e))
        user_activity(user_id) ==
            LET mine == SelectSeq(tracked, LAMBDA e : UserIdOf(e) = user_id)
            IN  [i \in 1..Len(mine) |-> _parse_date(GetOpt(gp(mine[i]), "timestamp"))]
        eligible_users == EligibleUsers(users, now)
        \* 1 when the loop body adds the user to retention_data['day_<day>']
        hit(user, day) ==
            LET user_id == Get(user, "userId", NoneVal)
                first_seen == _parse_date(GetOpt(user, "firstSeen"))
                activity_dates == user_activity(user_id)
                target_date == first_seen + TimeDelta(day)
            IN  IF activity_dates # << >>
                   /\ \E i \in 1..Len(activity_dates) :
                        Abs(DaysOf(activity_dates[i] - target_date)) <= 1
                THEN 1 ELSE 0
        retention_data(day) ==
            SumSeq([i \in 1..Len(eligible_users) |-> hit(eligible_users[i], day)])
        total == Len(eligible_users)
    IN  IF eligible_users # << >>
        THEN [day_1_retention |-> RoundDiv(retention_data(1) * 10000, total),
              day_7_retention |-> RoundDiv(retention_data(7) * 10000, total),
              day_30_retention |-> RoundDiv(retention_data(30) * 10000, total),
              cohort_size |-> total]
        ELSE [day_1_retention |-> 0, day_7_retention |-> 0, day_30_retention |-> 0,
              cohort_size |-> 0]

\* AnalyticsEngine.get_overview_metrics
get_overview_metrics(users, all_events, game_events, level_events, economy_events) ==
    LET now == Now
        dau == _calculate_dau(users, now)
        wau == _calculate_wau(users, now)
        mau == _calculate_mau(users, now)
        total_users == Len(users)
        sessions_sum == SumSeq([i \in 1..Len(users) |-> Get(users[i], "totalSessions", 0)])
        events_sum == SumSeq([i \in 1..Len(users) |-> Get(users[i], "totalEvents", 0)])
    IN  Returned(
        [timestamp |-> now,
         user_metrics |->
            [total_users |-> total_users,
             dau |-> dau, wau |-> wau, mau |-> mau,
             new_users_today |-> _count_new_users(users, now, 1),
             new_users_this_week |-> _count_new_users(users, now, 7),
             dau_mau_ratio |-> IF mau > 0 THEN RoundDiv(dau * 1000, mau) ELSE 0,
             avg_sessions_per_user |->
                IF users # << >> THEN RoundDiv(sessions_sum * 100, total_users) ELSE 0,
             avg_events_per_user |->
                IF users # << >> THEN RoundDiv(events_sum * 100, total_users) ELSE 0],
         session_metrics |-> _calculate_session_metrics(game_events),
         level_metrics |-> _calculate_level_metrics(level_events),
         revenue_metrics |-> _calculate_revenue_metrics(economy_events),
         platform_distribution |-> _calculate_platform_distribution(users),
         retention_rates |-> _calculate_retention_rates(users, all_events, now),
         total_events_tracked |-> Len(all_events)])

SegmentNames == {"whales", "engaged", "casual", "at_risk", "new", "dormant"}

\* AnalyticsEngine.get_user_segments, the body of the loop over users with the
\* appends read as "the user is a member of" (whale first, lifecycle last)
SegmentsOfUserWhaleFirst(user, events) ==
    LET now == Now
        user_event_list ==
            SelectSeq(events, LAMBDA e : /\ Truthy(UserIdOf(e))
                                         /\ UserIdOf(e) = Get(user, "userId", NoneVal))
        days_since_last == DaysOf(now - _parse_date(GetOpt(user, "lastSeen")))
        days_since_first == DaysOf(now - _parse_date(GetOpt(user, "firstSeen")))
        total_sessions == Get(user, "totalSessions", 0)
        total_spent ==
            SumSeq([i \in 1..Len(user_event_list) |->
                        Get(user_event_list[i], "realMoneyValue", 0)])
    IN  IF total_spent > 50 THEN {"whales"}
        ELSE IF days_since_first <= 7 THEN {"new"}
        ELSE IF days_since_last > 14 THEN {"dormant"}
        ELSE IF days_since_last > 7 THEN {"at_risk"}
        ELSE IF total_sessions > 20 THEN {"engaged"}
        ELSE IF total_sessions > 0 THEN {"casual"}
        ELSE {}

\* the body of the loop with the last branch an else: every user gets a lifecycle
\* segment
SegmentsOfUserCasualElse(user, events) ==
    LET now == Now
        user_event_list ==
            SelectSeq(events, LAMBDA e : /\ Truthy(UserIdOf(e))
                                         /\ UserIdOf(e) = Get(user, "userId", NoneVal))
        days_since_last == DaysOf(now - _parse_date(GetOpt(user, "lastSeen")))
        days_since_first == DaysOf(now - _parse_date(GetOpt(user, "firstSeen")))
        total_sessions == Get(user, "totalSessions", 0)
        total_spent ==
            SumSeq([i \in 1..Len(user_event_list) |->
                        Get(user_event_list[i], "realMoneyValue", 0)])
    IN  (IF total_spent > 50 THEN {"whales"} ELSE {})
        \cup (IF days_since_first <= 7 THEN {"new"} ELSE {})
        \cup (IF days_since_last > 14 THEN {"dormant"}
              ELSE IF days_since_last > 7 THEN {"at_risk"}
              ELSE IF total_sessions > 20 THEN {"engaged"}
              ELSE {"casual"})

\* AnalyticsEngine.get_user_segments, the body of the loop over users (lines
\* 329-359): the segments the user's id is appended to
SegmentsOfUser(user, events) ==
    LET now == Now
        \* user_events.get(user_id, [])
        user_event_list ==
            SelectSeq(events, LAMBDA e : /\ Truthy(UserIdOf(e))
                                         /\ UserIdOf(e) = Get(user, "userId", NoneVal))
        days_since_last == DaysOf(now - _parse_date(GetOpt(user, "lastSeen")))
        days_since_first == DaysOf(now - _parse_date(GetOpt(user, "firstSeen")))
        total_sessions == Get(user, "totalSessions", 0)
        total_spent ==
            SumSeq([i \in 1..Len(user_event_list) |->
                        Get(user_event_list[i], "realMoneyValue", 0)])
    IN  (IF total_spent > 50 THEN {"whales"} ELSE {})
        \cup (IF days_since_first <= 7 THEN {"new"} ELSE {})
        \cup (IF days_since_last > 14 THEN {"dormant"}
              ELSE IF days_since_last > 7 THEN {"at_risk"}
              ELSE IF total_sessions > 20 THEN {"engaged"}
              ELSE IF total_sessions > 0 THEN {"casual"}
              ELSE {})

\* AnalyticsEngine.get_user_segments, lines 310-359: the segments dict, each
\* segment the list of the user ids appended to it, in the order of users
user_segment_lists(users, events) ==
    LET ids(selected) == [i \in 1..Len(selected) |-> Get(selected[i], "userId", NoneVal)]
    IN  [segment \in SegmentNames |->
            ids(SelectSeq(users, LAMBDA u : segment \in SegmentsOfUser(u, events)))]

\* get_user_segments without the "if users" of its percentages
UserSegmentsUnguarded(users, events) ==
    LET segments == user_segment_lists(users, events)
    IN  IF users = << >> THEN Raised("ZeroDivisionError")
        ELSE Returned(
            [segment \in SegmentNames |->
                [count |-> Len(segments[segment]),
                 percentage |-> RoundDiv(Len(segments[segment]) * 10000, Len(users))]])

\* AnalyticsEngine.get_user_segments
get_user_segments(users, events) ==
    LET segments == user_segment_lists(users, events)
    IN  Returned(
        [segment \in SegmentNames |->
            [count |-> Len(segments[segment]),
             percentage |->
                IF users # << >> THEN RoundDiv(Len(segments[segment]) * 10000, Len(users))
                ELSE 0]])

----------------------------------------------------------------------------
(* LevelAnalyzer (models/level_analyzer.py) *)
(* Units of the results: completion_rate and perfect_completion_rate per    *)
(* mille (round(x, 3)), difficulty_score and the times in tenths             *)
(* (round(x, 1)), avg_attempts_to_complete in hundredths (round(x, 2)).      *)

\* event.get('globalParams', {}).get('userId', 'unknown')
PlayerOf(event) == Get(Get(event, "globalParams", << >>), "userId", "unknown")

\* sorted(user_level_events, key=timestamp or ''): the key of an event without a
\* timestamp is the string '', below which no datetime can be ordered
SortKeyMixed(events) ==
    /\ Len(events) > 1
    /\ \E i, j \in 1..Len(events) :
            /\ "timestamp" \in DOMAIN Get(events[i], "globalParams", << >>)
            /\ "timestamp" \notin DOMAIN Get(events[j], "globalParams", << >>)

\* sorted(user_level_events, key=lambda e: e...get('timestamp', ''))
SortByTimestamp(events) ==
    LET keyed == [i \in 1..Len(events) |->
                    [k |-> Get(Get(events[i], "globalParams", << >>), "timestamp", 0),
                     event |-> events[i]]]
        sorted == SortByKey(keyed)
    IN  [i \in 1..Len(sorted) |-> sorted[i].event]

\* the score with the attempts normalised over 5 attempts instead of 10
DifficultyScoreAttemptsOverFive(completion_rate, avg_attempts, avg_time, perfect_rate) ==
    LET one == <<1, 1>>
        completion_component == FracScale(40, FracSub(one, completion_rate))
        attempts_component == FracScale(30, FracMin(FracDiv(avg_attempts, 5), one))
        time_component == FracScale(20, FracMin(FracDiv(avg_time, 600), one))
        perfect_component == FracScale(10, FracSub(one, perfect_rate))
        difficulty ==
            FracAdd(FracAdd(completion_component, attempts_component),
                    FracAdd(time_component, perfect_component))
    IN  FracMin(difficulty, <<100, 1>>)

\* LevelAnalyzer._calculate_difficulty_score, on exact quotients
_calculate_difficulty_score(completion_rate, avg_attempts, avg_time, perfect_rate) ==
    LET one == <<1, 1>>
        completion_component == FracScale(40, FracSub(one, completion_rate))
        attempts_component == FracScale(30, FracMin(FracDiv(avg_attempts, 10), one))
        time_component == FracScale(20, FracMin(FracDiv(avg_time, 600), one))
        perfect_component == FracScale(10, FracSub(one, perfect_rate))
        difficulty ==
            FracAdd(FracAdd(completion_component, attempts_component),
                    FracAdd(time_component, perfect_component))
    IN  FracMin(difficulty, <<100, 1>>)

\* LevelAnalyzer._calculate_level_stats
_calculate_level_stats(level_id, events) ==
    LET players == KeysInOrder([i \in 1..Len(events) |-> PlayerOf(events[i])])
        user_events(user_id) == SelectSeq(events, LAMBDA e : PlayerOf(e) = user_id)
        total_unique_players == Len(players)
        total_attempts == Len(events)
        completed_events == SelectSeq(events, LAMBDA e : Get(e, "completed", FALSE))
        completion_count ==
            Cardinality({UserIdOf(completed_events[i]) : i \in 1..Len(completed_events)})
        completion_rate ==
            IF total_unique_players > 0 THEN Frac(completion_count, total_unique_players)
            ELSE <<0, 1>>
        \* the attempt number of the first completion of a player who completed
        first_completion(user_id) ==
            LET sorted_events == SortByTimestamp(user_events(user_id))
            IN  CHOOSE idx \in 1..Len(sorted_events) :
                    /\ Get(sorted_events[idx], "completed", FALSE)
                    /\ \A j \in 1..(idx - 1) : ~Get(sorted_events[j], "completed", FALSE)
        completers ==
            SelectSeq(players,
                      LAMBDA u : \E i \in 1..Len(events) :
                                    PlayerOf(events[i]) = u /\ Get(events[i], "completed", FALSE))
        attempts_to_complete == [i \in 1..Len(completers) |-> first_completion(completers[i])]
        avg_attempts ==
            IF attempts_to_complete # << >>
            THEN Frac(SumSeq(attempts_to_complete), Len(attempts_to_complete)) ELSE <<0, 1>>
        timed == SelectSeq(events, LAMBDA e : Get(e, "levelDuration", 0) # 0)
        durations == [i \in 1..Len(timed) |-> timed[i].levelDuration]
        avg_time ==
            IF durations # << >> THEN Frac(SumSeq(durations), 1000 * Len(durations))
            ELSE <<0, 1>>
        median_time ==
            IF durations # << >> THEN Frac(MedianTimes2(durations), 2000) ELSE <<0, 1>>
        scored == SelectSeq(completed_events, LAMBDA e : Get(e, "score", 0) # 0)
        avg_score ==
            IF scored # << >>
            THEN Frac(SumSeq([i \in 1..Len(scored) |-> scored[i].score]), Len(scored))
            ELSE <<0, 1>>
        starred == SelectSeq(completed_events, LAMBDA e : Get(e, "starsEarned", 0) # 0)
        avg_stars ==
            IF starred # << >>
            THEN Frac(SumSeq([i \in 1..Len(starred) |-> starred[i].starsEarned]), Len(starred))
            ELSE <<0, 1>>
        perfect_count ==
            Len(SelectSeq(completed_events, LAMBDA e : Get(e, "perfectCompletion", FALSE)))
        perfect_rate ==
            IF completion_count > 0 THEN Frac(perfect_count, completion_count) ELSE <<0, 1>>
        failed ==
            SelectSeq(events, LAMBDA e : ~Get(e, "completed", FALSE)
                                         /\ Get(e, "failReason", "unknown") # "")
        reasons == [i \in 1..Len(failed) |-> Get(failed[i], "failReason", "unknown")]
        reason_keys == KeysInOrder(reasons)
        fail_reasons ==
            [i \in 1..Len(reason_keys) |->
                [reason |-> reason_keys[i], k |-> CountOf(reasons, reason_keys[i])]]
        difficulty_score ==
            _calculate_difficulty_score(completion_rate, avg_attempts, avg_time, perfect_rate)
    IN  [level_id |-> level_id,
         total_unique_players |-> total_unique_players,
         total_attempts |-> total_attempts,
         completion_count |-> completion_count,
         completion_rate |-> FracRound(completion_rate, 1000),
         avg_attempts_to_complete |-> FracRound(avg_attempts, 100),
         avg_time_seconds |-> FracRound(avg_time, 10),
         median_time_seconds |-> FracRound(median_time, 10),
         avg_score |-> FracRound(avg_score, 10),
         avg_stars_earned |-> FracRound(avg_stars, 100),
         perfect_completion_rate |-> FracRound(perfect_rate, 1000),
         difficulty_score |-> FracRound(difficulty_score, 10),
         top_fail_reasons |-> Take(SortByKeyDesc(fail_reasons), 5)]

\* _identify_drop_off_levels without the [:15] of its return: the variant that
\* C7's bound on the list's length tells apart
DropOffLevelsUncut(level_stats) ==
    LET qualifying ==
            SelectSeq(level_stats,
                      LAMBDA stats : /\ stats.completion_rate < 500
                                     /\ stats.total_unique_players > 10
                                     /\ stats.difficulty_score > 600)
        drop_offs ==
            [i \in 1..Len(qualifying) |->
                [level_id |-> qualifying[i].level_id,
                 completion_rate |-> qualifying[i].completion_rate,
                 players_stuck |->
                    qualifying[i].total_unique_players - qualifying[i].completion_count,
                 difficulty_score |-> qualifying[i].difficulty_score,
                 severity |-> IF qualifying[i].completion_rate < 300 THEN "critical" ELSE "high",
                 k |-> qualifying[i].completion_rate]]
        sorted == SortByKey(drop_offs)
    IN  [i \in 1..Len(sorted) |-> [key \in DOMAIN sorted[i] \ {"k"} |-> sorted[i][key]]]

\* LevelAnalyzer._identify_drop_off_levels; level_stats is the dict's items, in order
_identify_drop_off_levels(level_stats) ==
    LET qualifying ==
            SelectSeq(level_stats,
                      LAMBDA stats : /\ stats.completion_rate < 500
                                     /\ stats.total_unique_players > 10
                                     /\ stats.difficulty_score > 600)
        drop_offs ==
            [i \in 1..Len(qualifying) |->
                [level_id |-> qualifying[i].level_id,
                 completion_rate |-> qualifying[i].completion_rate,
                 players_stuck |->
                    qualifying[i].total_unique_players - qualifying[i].completion_count,
                 difficulty_score |-> qualifying[i].difficulty_score,
                 severity |-> IF qualifying[i].completion_rate < 300 THEN "critical" ELSE "high",
                 k |-> qualifying[i].completion_rate]]
        sorted == SortByKey(drop_offs)
    IN  Take([i \in 1..Len(sorted) |->
                [key \in DOMAIN sorted[i] \ {"k"} |-> sorted[i][key]]], 15)

\* the bottlenecks taken from all levels instead of the 20 with the most attempts; impact_score is in thousandths
BottlenecksOfAllLevels(level_stats) ==
    LET sorted_levels ==
            SortByKeyDesc([i \in 1..Len(level_stats) |->
                            [k |-> level_stats[i].total_attempts, stats |-> level_stats[i]]])
        top == sorted_levels
        failing == SelectSeq(top, LAMBDA x : x.stats.completion_rate < 600)
        bottlenecks ==
            [i \in 1..Len(failing) |->
                [level_id |-> failing[i].stats.level_id,
                 total_attempts |-> failing[i].stats.total_attempts,
                 completion_rate |-> failing[i].stats.completion_rate,
                 avg_attempts |-> failing[i].stats.avg_attempts_to_complete,
                 impact_score |->
                    failing[i].stats.total_attempts * (1000 - failing[i].stats.completion_rate),
                 k |-> failing[i].stats.total_attempts
                        * (1000 - failing[i].stats.completion_rate)]]
        sorted == SortByKeyDesc(bottlenecks)
    IN  Take([i \in 1..Len(sorted) |->
                [key \in DOMAIN sorted[i] \ {"k"} |-> sorted[i][key]]], 10)

\* LevelAnalyzer._identify_bottlenecks; impact_score is in thousandths
_identify_bottlenecks(level_stats) ==
    LET sorted_levels ==
            SortByKeyDesc([i \in 1..Len(level_stats) |->
                            [k |-> level_stats[i].total_attempts, stats |-> level_stats[i]]])
        top == Take(sorted_levels, 20)
        failing == SelectSeq(top, LAMBDA x : x.stats.completion_rate < 600)
        bottlenecks ==
            [i \in 1..Len(failing) |->
                [level_id |-> failing[i].stats.level_id,
                 total_attempts |-> failing[i].stats.total_attempts,
                 completion_rate |-> failing[i].stats.completion_rate,
                 avg_attempts |-> failing[i].stats.avg_attempts_to_complete,
                 impact_score |->
                    failing[i].stats.total_attempts * (1000 - failing[i].stats.completion_rate),
                 k |-> failing[i].stats.total_attempts
                        * (1000 - failing[i].stats.completion_rate)]]
        sorted == SortByKeyDesc(bottlenecks)
    IN  Take([i \in 1..Len(sorted) |->
                [key \in DOMAIN sorted[i] \ {"k"} |-> sorted[i][key]]], 10)

\* LevelAnalyzer._empty_analysis
_empty_analysis ==
    [level_stats |-> << >>, difficulty_scores |-> << >>, drop_off_levels |-> << >>,
     bottleneck_levels |-> << >>, easiest_levels |-> << >>, hardest_levels |-> << >>,
     total_levels_analyzed |-> 0]

\* xs[-n:]
TakeLast(xs, n) == SubSeq(xs, IF Len(xs) > n THEN Len(xs) - n + 1 ELSE 1, Len(xs))

\* LevelAnalyzer.analyze_all_levels; the dicts level_stats and difficulty_scores are
\* the lists of their values, in insertion order
analyze_all_levels(level_events) ==
    IF level_events = << >> THEN Returned(_empty_analysis)
    ELSE
        LET level_ids ==
                KeysInOrder([i \in 1..Len(level_events) |->
                                Get(level_events[i], "levelId", "unknown")])
            level_group(level_id) ==
                SelectSeq(level_events, LAMBDA e : Get(e, "levelId", "unknown") = level_id)
            sort_fails ==
                \E i \in 1..Len(level_ids) :
                    \E u \in {PlayerOf(level_events[j]) : j \in 1..Len(level_events)} :
                        SortKeyMixed(SelectSeq(level_group(level_ids[i]),
                                               LAMBDA e : PlayerOf(e) = u))
            level_stats ==
                [i \in 1..Len(level_ids) |->
                    _calculate_level_stats(level_ids[i], level_group(level_ids[i]))]
            difficulty_scores ==
                [i \in 1..Len(level_stats) |->
                    [level_id |-> level_stats[i].level_id, k |-> level_stats[i].difficulty_score]]
            sorted_by_difficulty == SortByKeyDesc(difficulty_scores)
            hardest == Take(sorted_by_difficulty, 10)
            easiest == TakeLast(sorted_by_difficulty, 10)
        IN  IF sort_fails THEN Raised("TypeError")
            ELSE Returned(
                [level_stats |-> level_stats,
                 difficulty_scores |->
                    [i \in 1..Len(difficulty_scores) |->
                        [level_id |-> difficulty_scores[i].level_id,
                         difficulty_score |-> difficulty_scores[i].k]],
                 drop_off_levels |-> _identify_drop_off_levels(level_stats),
                 bottleneck_levels |-> _identify_bottlenecks(level_stats),
                 easiest_levels |-> [i \in 1..Len(easiest) |-> easiest[i].level_id],
                 hardest_levels |-> [i \in 1..Len(hardest) |-> hardest[i].level_id],
                 total_levels_analyzed |-> Len(level_stats)])

\* the drop-off taken relative to the players of the next level
FunnelDropOffOfNext(current_players, next_players) ==
    LET drop_off == current_players - next_players
    IN  [drop_off_to_next |-> drop_off,
         drop_off_rate |->
            IF next_players > 0 THEN RoundDiv(drop_off * 1000, next_players) ELSE 0]

\* LevelAnalyzer.get_level_progression_funnel, lines 287-293: the drop-off between
\* a level and the next one, the rate per mille
FunnelDropOff(current_players, next_players) ==
    LET drop_off == current_players - next_players
    IN  [drop_off_to_next |-> drop_off,
         drop_off_rate |->
            IF current_players > 0 THEN RoundDiv(drop_off * 1000, current_players) ELSE 0]

\* LevelAnalyzer.get_level_progression_funnel; retention_rate is an exact quotient,
\* drop_off_rate is per mille; biggest_drop_off None is << >>
get_level_progression_funnel(level_events) ==
    LET numbered == SelectSeq(level_events, LAMBDA e : Get(e, "levelNumber", 0) > 0)
        level_numbers(level_num) ==
            {PlayerOf(numbered[i]) : i \in {j \in 1..Len(numbered) :
                                                numbered[j].levelNumber = level_num}}
        nums == {numbered[i].levelNumber : i \in 1..Len(numbered)}
        sorted_levels ==
            SortByKey([i \in 1..Len(KeysInOrder([j \in 1..Len(numbered) |->
                                                    numbered[j].levelNumber])) |->
                        [k |-> KeysInOrder([j \in 1..Len(numbered) |->
                                                numbered[j].levelNumber])[i]]])
        reached(i) == Cardinality(level_numbers(sorted_levels[i].k))
        n == Len(sorted_levels)
        base ==
            [i \in 1..n |->
                [level_number |-> sorted_levels[i].k,
                 players_reached |-> reached(i),
                 retention_rate |->
                    IF 1 \in nums THEN Frac(reached(i), Cardinality(level_numbers(1)))
                    ELSE <<0, 1>>]]
        step(i) ==
            LET d == FunnelDropOff(reached(i), reached(i + 1))
            IN  [level_number |-> base[i].level_number,
                 players_reached |-> base[i].players_reached,
                 retention_rate |-> base[i].retention_rate,
                 drop_off_to_next |-> d.drop_off_to_next,
                 drop_off_rate |-> d.drop_off_rate]
        funnel == [i \in 1..n |-> IF i < n THEN step(i) ELSE base[i]]
        rate(i) == Get(funnel[i], "drop_off_rate", 0)
    IN  Returned(
        [funnel |-> funnel,
         total_levels_in_funnel |-> n,
         biggest_drop_off |->
            IF funnel # << >>
            THEN <<funnel[CHOOSE i \in 1..n :
                            /\ \A j \in 1..n : rate(j) <= rate(i)
                            /\ \A j \in 1..(i - 1) : rate(j) < rate(i)]>>
            ELSE << >>])

----------------------------------------------------------------------------
(* GameRecommendations (services/game_recommendations.py) *)

\* an f-string: its template and the values formatted into it
Fmt(template, args) == [template |-> template, args |-> args]

\* recommendations[bucket].append(item)
AppendTo(recommendations, bucket, item) ==
    [recommendations EXCEPT ![bucket] = Append(@, item)]

\* recommendations[bucket].append(item) if cond
AppendIf(recommendations, cond, bucket, item) ==
    IF cond THEN AppendTo(recommendations, bucket, item) ELSE recommendations

\* GameRecommendations._analyze_retention
_analyze_retention(recommendations, metrics, churn_analysis) ==
    LET retention == Get(metrics, "retention_rates", << >>)
        user_metrics == Get(metrics, "user_metrics", << >>)
        day_1_retention == Get(retention, "day_1_retention", 0)
        day_7_retention == Get(retention, "day_7_retention", 0)
        dau_mau == Get(user_metrics, "dau_mau_ratio", 0)
        r1 ==
            IF day_1_retention < 4000
            THEN AppendTo(recommendations, "critical",
                    [category |-> "Retention",
                     issue |-> Fmt("Very low Day 1 retention ({}%)", <<day_1_retention>>),
                     impact |-> "High user drop-off after first session",
                     recommendations |->
                        <<"Improve first-time user experience (FTUE)",
                          "Add tutorial skip option for experienced players",
                          "Provide immediate rewards in first session",
                          "Reduce barriers to core gameplay loop",
                          "Send push notification 24 hours after first session">>,
                     expected_improvement |-> "15-25% increase in Day 1 retention"])
            ELSE IF day_1_retention < 6000
            THEN AppendTo(recommendations, "high_priority",
                    [category |-> "Retention",
                     issue |-> Fmt("Below average Day 1 retention ({}%)", <<day_1_retention>>),
                     recommendations |->
                        <<"Optimize onboarding flow", "Add progression rewards",
                          "Implement better tutorial">>])
            ELSE recommendations
        r2 ==
            AppendIf(r1, day_7_retention < 2000, "high_priority",
                [category |-> "Retention",
                 issue |-> Fmt("Low Day 7 retention ({}%)", <<day_7_retention>>),
                 impact |-> "Players not forming habit",
                 recommendations |->
                    <<"Implement daily login bonuses", "Add time-limited events",
                      "Create compelling meta-progression system",
                      "Introduce social features", "Send re-engagement notifications">>])
        r3 ==
            AppendIf(r2, dau_mau < 150, "high_priority",
                [category |-> "Engagement",
                 issue |-> Fmt("Low DAU/MAU ratio ({:.2%}) indicates low stickiness", <<dau_mau>>),
                 recommendations |->
                    <<"Add daily quests or challenges",
                      "Implement energy/stamina system to encourage multiple sessions",
                      "Create reasons to return daily", "Add guild or clan features">>])
        high_churn_count ==
            Len(SelectSeq(churn_analysis,
                          LAMBDA c : Get(c, "churn_risk", "None") \in {"high", "critical"}))
    IN  AppendIf(r3, high_churn_count > 0, "high_priority",
            [category |-> "Churn Prevention",
             issue |-> Fmt("{} users at high/critical churn risk", <<high_churn_count>>),
             recommendations |->
                <<"Send targeted re-engagement campaigns", "Offer personalized incentives",
                  "Identify common patterns in at-risk users", "Create win-back offers">>,
             action_required |-> "Review individual users in PAIME dashboard"])

\* recommendations[bucket].extend(items)
RECURSIVE AppendAll(_, _, _)
AppendAll(recommendations, bucket, items) ==
    IF items = << >> THEN recommendations
    ELSE AppendAll(AppendTo(recommendations, bucket, Head(items)), bucket, Tail(items))

\* GameRecommendations._analyze_level_difficulty
_analyze_level_difficulty(recommendations, level_analysis) ==
    LET drop_off_levels == Get(level_analysis, "drop_off_levels", << >>)
        bottlenecks == Get(level_analysis, "bottleneck_levels", << >>)
        hardest == Get(level_analysis, "hardest_levels", << >>)
        critical_drop_offs ==
            SelectSeq(drop_off_levels, LAMBDA l : Get(l, "severity", "None") = "critical")
        top3 == Take(critical_drop_offs, 3)
        r1 ==
            AppendAll(recommendations, "critical",
                [i \in 1..Len(top3) |->
                    [category |-> "Level Difficulty",
                     issue |-> Fmt("Critical drop-off at {} (only {:.1%} complete)",
                                   <<top3[i].level_id, top3[i].completion_rate>>),
                     impact |-> Fmt("{} players stuck", <<top3[i].players_stuck>>),
                     recommendations |->
                        <<"Reduce difficulty or add checkpoints",
                          "Provide skip option after 5+ fails", "Add hint system",
                          "Rebalance enemy/obstacle placement", "Consider level redesign">>,
                     metrics |->
                        [completion_rate |-> top3[i].completion_rate,
                         difficulty_score |-> top3[i].difficulty_score]]])
        top2 == Take(bottlenecks, 2)
        r2 ==
            AppendAll(r1, "high_priority",
                [i \in 1..Len(top2) |->
                    [category |-> "Level Difficulty",
                     issue |-> Fmt("Bottleneck at {} - high traffic, low completion",
                                   <<top2[i].level_id>>),
                     recommendations |->
                        <<"Add difficulty options (easy/normal/hard)", "Improve level guidance",
                          "Add practice mode", "Balance reward vs difficulty">>,
                     metrics |-> top2[i]]])
        scores == Get(level_analysis, "difficulty_scores", << >>)
        score_of(lvl) ==
            IF \E i \in 1..Len(scores) : scores[i].level_id = lvl
            THEN scores[CHOOSE i \in 1..Len(scores) : scores[i].level_id = lvl].difficulty_score
            ELSE 0
        difficulty_scores == [i \in 1..Len(hardest) |-> score_of(hardest[i])]
        \* avg_hardest > 80, on scores in tenths
        too_hard ==
            /\ Len(hardest) > 3
            /\ SumSeq(difficulty_scores) > 800 * Len(difficulty_scores)
    IN  AppendIf(r2, too_hard, "medium_priority",
            [category |-> "Level Design",
             issue |-> Fmt("Several extremely difficult levels may frustrate players", << >>),
             recommendations |->
                <<"Review difficulty curve across game", "Add gradual difficulty ramp",
                  "Place extremely hard levels as optional challenges",
                  "Consider adaptive difficulty">>])

\* GameRecommendations._analyze_monetization; conversion_rate, a percentage, is an
\* exact quotient
_analyze_monetization(recommendations, metrics, user_segments) ==
    LET revenue == Get(metrics, "revenue_metrics", << >>)
        user_count == Get(Get(metrics, "user_metrics", << >>), "total_users", 0)
        paying_users == Get(revenue, "paying_users", 0)
        conversion_rate ==
            IF user_count > 0 THEN Frac(paying_users * 100, user_count) ELSE <<0, 1>>
        r1 ==
            AppendIf(recommendations, FracLess(conversion_rate, <<2, 1>>) /\ user_count > 100,
                "high_priority",
                [category |-> "Monetization",
                 issue |-> Fmt("Low conversion rate ({:.2f}%)", <<conversion_rate>>),
                 recommendations |->
                    <<"Improve first-time buyer offers", "Add limited-time sales",
                      "Create better value propositions", "Implement starter packs",
                      "Show benefits of premium features clearly", "A/B test pricing">>,
                 potential_impact |-> "Industry average is 2-5%, could double revenue"])
        engaged_pct == Get(Get(user_segments, "engaged", << >>), "percentage", 0)
        r2 ==
            AppendIf(r1, engaged_pct > 1000 /\ FracLess(conversion_rate, <<3, 1>>),
                "medium_priority",
                [category |-> "Monetization",
                 issue |-> Fmt("High engagement but low monetization", << >>),
                 recommendations |->
                    <<"Add more cosmetic items", "Implement season pass",
                      "Create VIP membership", "Add quality-of-life purchases",
                      "Introduce battle pass system">>])
        arpu == Get(revenue, "revenue_per_paying_user", 0)
    IN  AppendIf(r2, arpu < 500 /\ paying_users > 10, "medium_priority",
            [category |-> "Monetization",
             issue |-> Fmt("Low ARPPU (${:.2f})", <<arpu>>),
             recommendations |->
                <<"Add premium content for whales", "Create exclusive items",
                  "Implement bundle deals", "Add subscription options">>])

\* GameRecommendations._analyze_engagement
_analyze_engagement(recommendations, metrics) ==
    LET session_metrics == Get(metrics, "session_metrics", << >>)
        user_metrics == Get(metrics, "user_metrics", << >>)
        avg_session_duration == Get(session_metrics, "avg_session_duration_minutes", 0)
        avg_sessions_per_user == Get(user_metrics, "avg_sessions_per_user", 0)
        r1 ==
            AppendIf(recommendations, avg_session_duration < 500, "medium_priority",
                [category |-> "Engagement",
                 issue |-> Fmt("Short average session duration ({:.1f} minutes)",
                               <<avg_session_duration>>),
                 recommendations |->
                    <<"Add more engaging core loop", "Implement progression hooks",
                      "Create \"one more turn\" mechanics", "Add meta-game features",
                      "Improve reward pacing">>])
    IN  AppendIf(r1, avg_sessions_per_user < 500, "medium_priority",
            [category |-> "Engagement",
             issue |-> Fmt("Low average sessions per user", << >>),
             recommendations |->
                <<"Add reasons to return", "Implement notifications strategically",
                  "Create daily rewards", "Add limited-time content">>])

\* GameRecommendations._analyze_user_progression
_analyze_user_progression(recommendations, level_analysis) ==
    LET funnel == Get(level_analysis, "level_progression_funnel", << >>)
        funnel_data == Get(funnel, "funnel", << >>)
        n == Len(funnel_data)
        rate(i) == Get(funnel_data[i], "drop_off_rate", 0)
        biggest_drop ==
            funnel_data[CHOOSE i \in 1..n :
                            /\ \A j \in 1..n : rate(j) <= rate(i)
                            /\ \A j \in 1..(i - 1) : rate(j) < rate(i)]
        r1 ==
            AppendIf(recommendations,
                n > 5 /\ Get(biggest_drop, "drop_off_rate", 0) > 300, "high_priority",
                [category |-> "Content Progression",
                 issue |-> Fmt("Major drop-off at level {} ({:.1%} don't continue)",
                               <<biggest_drop.level_number, biggest_drop.drop_off_rate>>),
                 recommendations |->
                    <<"Investigate level design", "Check if difficulty spike",
                      "Add incentive to continue", "Review monetization gates",
                      "Consider level reordering">>])
        level_stats == Get(level_analysis, "level_stats", << >>)
        max_level ==
            MaxSeq(<<0>> \o [i \in 1..Len(level_stats) |-> Get(level_stats[i], "level_number", 0)])
    IN  AppendIf(r1, level_stats # << >> /\ max_level < 20, "high_priority",
            [category |-> "Content",
             issue |-> Fmt("Limited content ({} levels)", <<max_level>>),
             recommendations |->
                <<"Add more levels to increase lifetime value", "Create endless mode",
                  "Add procedural content", "Implement level editor",
                  "Add challenge modes">>])

\* GameRecommendations._identify_positive_patterns, line 380: the divisor of
\* conversion_rate; the function raises ZeroDivisionError when it is 0
PositivePatternsDivisor(metrics) ==
    Get(Get(metrics, "user_metrics", << >>), "total_users", 1)

\* GameRecommendations._identify_positive_patterns, from line 382 on
_identify_positive_patterns(recommendations, metrics, level_analysis) ==
    LET retention == Get(metrics, "retention_rates", << >>)
        revenue == Get(metrics, "revenue_metrics", << >>)
        user_metrics == Get(metrics, "user_metrics", << >>)
        day_1_retention == Get(retention, "day_1_retention", 0)
        day_7_retention == Get(retention, "day_7_retention", 0)
        conversion_rate ==
            Frac(Get(revenue, "paying_users", 0) * 100, PositivePatternsDivisor(metrics))
        r1 ==
            AppendIf(recommendations, day_1_retention > 6000, "positive_insights",
                [achievement |-> Fmt("Excellent Day 1 retention ({}%)", <<day_1_retention>>),
                 insight |-> "Onboarding and first-time experience are working well",
                 recommendation |-> "Document what makes FTUE successful for future games"])
        r2 ==
            AppendIf(r1, day_7_retention > 3000, "positive_insights",
                [achievement |-> Fmt("Strong Day 7 retention ({}%)", <<day_7_retention>>),
                 insight |-> "Players are forming habits and enjoying the game",
                 recommendation |-> "Maintain core loop, iterate on meta features"])
        r3 ==
            AppendIf(r2, FracLess(<<3, 1>>, conversion_rate), "positive_insights",
                [achievement |-> Fmt("Good conversion rate ({:.2f}%)", <<conversion_rate>>),
                 insight |-> "Monetization is well-balanced",
                 recommendation |-> "Consider scaling marketing efforts"])
        easiest == Get(level_analysis, "easiest_levels", << >>)
    IN  AppendIf(r3, easiest # << >>, "positive_insights",
            [achievement |-> Fmt("Well-designed easy levels for onboarding", << >>),
             insight |-> Fmt("Levels {} have high completion rates", Take(easiest, 3)),
             recommendation |-> "Use similar design principles for future early levels"])

\* the score with the floor of critical for high_priority too
PriorityScoreHighAsCritical(item, priority) ==
    LET base_scores ==
            [critical |-> 100, high_priority |-> 100, medium_priority |-> 40,
             low_priority |-> 10, positive_insights |-> 0]
        metrics == Get(item, "metrics", << >>)
    IN  Get(base_scores, priority, 0)
        + (IF "impact" \in DOMAIN item THEN 10 ELSE 0)
        + (IF "expected_improvement" \in DOMAIN item THEN 15 ELSE 0)
        + (IF "players_stuck" \in DOMAIN metrics
           THEN (IF metrics.players_stuck \div 10 < 20 THEN metrics.players_stuck \div 10 ELSE 20)
           ELSE 0)

\* GameRecommendations._calculate_priority_score
_calculate_priority_score(item, priority) ==
    LET base_scores ==
            [critical |-> 100, high_priority |-> 70, medium_priority |-> 40,
             low_priority |-> 10, positive_insights |-> 0]
        metrics == Get(item, "metrics", << >>)
    IN  Get(base_scores, priority, 0)
        + (IF "impact" \in DOMAIN item THEN 10 ELSE 0)
        + (IF "expected_improvement" \in DOMAIN item THEN 15 ELSE 0)
        + (IF "players_stuck" \in DOMAIN metrics
           THEN (IF metrics.players_stuck \div 10 < 20 THEN metrics.players_stuck \div 10 ELSE 20)
           ELSE 0)

Buckets == {"critical", "high_priority", "medium_priority", "low_priority", "positive_insights"}

\* item['priority_score'] = score
WithScore(item, score) ==
    [key \in DOMAIN item \cup {"priority_score"} |->
        IF key = "priority_score" THEN score ELSE item[key]]

\* GameRecommendations.generate_comprehensive_recommendations
generate_comprehensive_recommendations(overview_metrics, level_analysis, churn_analysis, user_segments) ==
    LET r0 == [bucket \in Buckets |-> << >>]
        r1 == _analyze_retention(r0, overview_metrics, churn_analysis)
        r2 == _analyze_level_difficulty(r1, level_analysis)
        r3 == _analyze_monetization(r2, overview_metrics, user_segments)
        r4 == _analyze_engagement(r3, overview_metrics)
        r5 == _analyze_user_progression(r4, level_analysis)
        r6 == _identify_positive_patterns(r5, overview_metrics, level_analysis)
    IN  IF PositivePatternsDivisor(overview_metrics) = 0 THEN Raised("ZeroDivisionError")
        ELSE Returned(
            [priority \in Buckets |->
                [i \in 1..Len(r6[priority]) |->
                    IF "priority_score" \in DOMAIN r6[priority][i] THEN r6[priority][i]
                    ELSE WithScore(r6[priority][i],
                                   _calculate_priority_score(r6[priority][i], priority))]])

\* the users and event lists handed to predict_churn_risk
ChurnInactiveDays == {0, 3, 4, 7, 8, 14, 15, 20}
ChurnSessionCounts == {2, 4, 5, 11}
ChurnUsers ==
    {MkUser("u1", TimeDelta(40), TimeDelta(d), 3, 30) : d \in ChurnInactiveDays}
    \cup {MkUser("u1", TimeDelta(40), TimeDelta(d), s, 10 * s) :
            d \in {0, 3, 20}, s \in ChurnSessionCounts}
    \cup {MkUser("u1", TimeDelta(40), TimeDelta(1) + 1, 3, 30),
          Only(MkUser("u1", 0, 0, 2, 20), {"userId", "totalSessions"}),
          Only(MkUser("u1", 0, 0, 0, 0), {"userId"})}
ChurnEventLists ==
    { << >>,
      <<MkLevelEvent("u1", "level_1", 1, FALSE, FALSE, TimeDelta(1), 30000),
        MkLevelEvent("u1", "level_1", 1, FALSE, FALSE, TimeDelta(9), 30000),
        MkLevelEvent("u1", "level_1", 1, FALSE, FALSE, TimeDelta(10), 30000)>>,
      <<MkSessionEvent("u1", "s1", TimeDelta(1), 60000),
        MkEconomyEvent("u1", 5, TimeDelta(2))>> }
\* the classifier's answers, in 1/10000
ClassifierProbs == {0, 2499, 2500, 4996, 7499, 7500, 10000}

\* AIInsightsEngine.__init__
NewInsightsEngine == insights_scaler = NewScaler

\* no call of the predictor is in flight
NoCallInFlight == pc = [writer |-> "idle", at |-> 0, reader |-> "idle"]

\* ChurnPredictor.__init__
NewPredictor ==
    /\ model = NewModel
    /\ scaler = NewScaler
    /\ is_trained = FALSE
    /\ feature_names = FeatureNames
    /\ churn_call = [op |-> "init"]

ChurnInit ==
    /\ NewPredictor
    /\ NewInsightsEngine
    /\ NoCallInFlight
    /\ artifact \in StartupArtifacts
    /\ db_users = << >>
    /\ db_game_events = << >>
    /\ db_level_events = << >>
    /\ db_economy_events = << >>
    /\ response = [op |-> "init"]

\* ChurnPredictor.train; classes is the number of distinct labels in training_data
\* (0: the list is empty, and StandardScaler.fit_transform raises on the empty array)
Train(classes) ==
    /\ IF classes = 0
       THEN /\ scaler' \in {scaler, NewScaler}
            /\ churn_call' = [op |-> "train", outcome |-> Raised("ValueError")]
            /\ UNCHANGED <<model, is_trained, feature_names, artifact>>
       ELSE /\ scaler' = [fitted |-> TRUE]
            /\ model' = [fitted |-> TRUE, classes |-> classes]
            /\ is_trained' = TRUE
            /\ churn_call' = [op |-> "train", outcome |-> Returned("score")]
            /\ UNCHANGED <<feature_names, artifact>>
    /\ UNCHANGED <<snapshot_vars, response, insights_scaler, pc>>

\* ChurnPredictor.save_model
SaveModel ==
    /\ artifact' = File(TRUE, TRUE, ModelData)
    /\ churn_call' = [op |-> "save_model", outcome |-> Returned("None")]
    /\ UNCHANGED <<model, scaler, is_trained, feature_names>>
    /\ UNCHANGED <<snapshot_vars, response, insights_scaler, pc>>

\* ChurnPredictor.load_model: the assignments run in order, a missing key raises
\* KeyError at its assignment and leaves the earlier ones done
LoadModel ==
    LET model_data == artifact.data
        has(k) == k \in DOMAIN model_data
        upto(k) ==
            CASE k = "model" -> has("model")
              [] k = "scaler" -> has("model") /\ has("scaler")
              [] k = "is_trained" -> has("model") /\ has("scaler") /\ has("is_trained")
              [] OTHER -> \A j \in BlobKeys : has(j)
    IN  /\ UNCHANGED <<snapshot_vars, response, insights_scaler, pc>>
        /\ IF ~artifact.exists
           THEN /\ churn_call' = [op |-> "load_model", outcome |-> Returned(FALSE)]
                /\ UNCHANGED <<model, scaler, is_trained, feature_names, artifact>>
           ELSE IF ~artifact.readable
           THEN /\ churn_call' = [op |-> "load_model", outcome |-> Raised("UnpicklingError")]
                /\ UNCHANGED <<model, scaler, is_trained, feature_names, artifact>>
           ELSE /\ model' = IF upto("model") THEN model_data.model ELSE model
                /\ scaler' = IF upto("scaler") THEN model_data.scaler ELSE scaler
                /\ is_trained' = IF upto("is_trained") THEN model_data.is_trained ELSE is_trained
                /\ feature_names' =
                       IF upto("feature_names") THEN model_data.feature_names ELSE feature_names
                /\ churn_call' =
                       [op |-> "load_model",
                        outcome |-> IF upto("feature_names") THEN Returned(TRUE)
                                    ELSE Raised("KeyError")]
                /\ UNCHANGED artifact

\* one call of ChurnPredictor.predict_churn_risk
PredictChurnRisk(user_data, events_data, churn_prob) ==
    /\ churn_call' =
            [op |-> "predict_churn_risk",
             mode |-> IF is_trained THEN "trained" ELSE "rule_based",
             user_data |-> user_data, events_data |-> events_data,
             churn_prob |-> IF is_trained THEN churn_prob ELSE 0,
             outcome |-> predict_churn_risk(user_data, events_data, churn_prob)]
    /\ UNCHANGED <<model, scaler, is_trained, feature_names, artifact>>
    /\ UNCHANGED <<snapshot_vars, response, insights_scaler, pc>>

\* the mode machine: the instance's life cycle, with a few predictions
LifecycleUsers ==
    {MkUser("u1", TimeDelta(40), TimeDelta(d), 3, 30) : d \in {0, 20}}
LifecycleProbs == {2000, 8000}

ChurnNext ==
    \/ \E classes \in 0..2 : Train(classes)
    \/ SaveModel
    \/ LoadModel
    \/ \E user_data \in LifecycleUsers,
          churn_prob \in (IF is_trained THEN LifecycleProbs ELSE {0}) :
            PredictChurnRisk(user_data, << >>, churn_prob)

SpecChurn == ChurnInit /\ [][ChurnNext]_vars

\* the prediction function over its inputs, in both modes
PredictInit ==
    /\ ChurnInit
    /\ artifact = File(FALSE, FALSE, << >>)

\* every user and event list with one classifier answer, and every classifier
\* answer with one user and event list
PredictInputs ==
    {<<u, e, 2000>> : u \in ChurnUsers, e \in ChurnEventLists}
    \cup {<<MkUser("u1", TimeDelta(40), 0, 3, 30), << >>, p>> : p \in ClassifierProbs}

PredictNext ==
    \/ Train(2)
    \/ \E in \in PredictInputs :
            /\ ~is_trained => in[3] = 2000
            /\ PredictChurnRisk(in[1], in[2], in[3])

SpecPredict == PredictInit /\ [][PredictNext]_vars

----------------------------------------------------------------------------
(* Predictions interleaved with a first train() or load_model() *)

\* the statements of train that touch the instance, in their order: lines 177, 180, 181
TrainStatements == <<"scaler", "model", "is_trained">>

\* the assignments of load_model with the flag first
LoadStatementsFlagFirst == <<"is_trained", "model", "scaler", "feature_names">>

\* the assignments of load_model, in their order: lines 339 to 342
LoadStatements == <<"model", "scaler", "is_trained", "feature_names">>

\* pc.writer is the call that changes the instance and pc.at its next statement,
\* pc.reader the place of a predict_churn_risk call
WriterAt(op, at) == [pc EXCEPT !.writer = op, !.at = at]
ReaderAt(place) == [pc EXCEPT !.reader = place]

\* train is called: the loop over training_data (lines 168 to 171) touches nothing
TrainBegin ==
    /\ pc.writer = "idle"
    /\ pc' = WriterAt("train", 1)
    /\ UNCHANGED <<churn_vars, snapshot_vars, response, insights_scaler>>

\* one statement of train; classes is the number of distinct labels (0: the list is
\* empty and fit_transform raises)
TrainStatement(classes) ==
    /\ pc.writer = "train"
    /\ LET statement == TrainStatements[pc.at]
           raises == statement = "scaler" /\ classes = 0
       IN  /\ scaler' = IF statement = "scaler" /\ ~raises THEN [fitted |-> TRUE] ELSE scaler
           /\ model' = IF statement = "model" THEN [fitted |-> TRUE, classes |-> classes]
                       ELSE model
           /\ is_trained' = IF statement = "is_trained" THEN TRUE ELSE is_trained
           /\ pc' = IF raises \/ pc.at = Len(TrainStatements) THEN WriterAt("done", 0)
                    ELSE WriterAt("train", pc.at + 1)
    /\ UNCHANGED <<feature_names, artifact, churn_call>>
    /\ UNCHANGED <<snapshot_vars, response, insights_scaler>>

\* load_model is called: lines 336 to 338, the file is looked up and unpickled
LoadBegin ==
    /\ pc.writer = "idle"
    /\ pc' = IF artifact.exists /\ artifact.readable THEN WriterAt("load", 1)
             ELSE WriterAt("done", 0)
    /\ UNCHANGED <<churn_vars, snapshot_vars, response, insights_scaler>>

\* one assignment of load_model; a missing key raises KeyError and ends the call
LoadStatement ==
    /\ pc.writer = "load"
    /\ LET key == LoadStatements[pc.at]
           model_data == artifact.data
           raises == key \notin DOMAIN model_data
           assigns(k) == key = k /\ ~raises
       IN  /\ model' = IF assigns("model") THEN model_data.model ELSE model
           /\ scaler' = IF assigns("scaler") THEN model_data.scaler ELSE scaler
           /\ is_trained' = IF assigns("is_trained") THEN model_data.is_trained ELSE is_trained
           /\ feature_names' = IF assigns("feature_names") THEN model_data.feature_names
                               ELSE feature_names
           /\ pc' = IF raises \/ pc.at = Len(LoadStatements) THEN WriterAt("done", 0)
                    ELSE WriterAt("load", pc.at + 1)
    /\ UNCHANGED <<artifact, churn_call>>
    /\ UNCHANGED <<snapshot_vars, response, insights_scaler>>

\* predict_churn_risk, line 197: self.is_trained is read; the rule-based path uses
\* neither the scaler nor the classifier
ReadIsTrained(user_data) ==
    /\ pc.reader = "idle"
    /\ IF is_trained
       THEN /\ pc' = ReaderAt("transform")
            /\ UNCHANGED churn_call
       ELSE /\ churn_call' =
                    [op |-> "predict_churn_risk", mode |-> "rule_based",
                     outcome |-> Returned(_rule_based_prediction(user_data, << >>))]
            /\ UNCHANGED pc
    /\ UNCHANGED <<model, scaler, is_trained, feature_names, artifact>>
    /\ UNCHANGED <<snapshot_vars, response, insights_scaler>>

\* predict_churn_risk, line 202: self.scaler.transform(features)
ScalerTransform ==
    /\ pc.reader = "transform"
    /\ IF scaler.fitted
       THEN /\ pc' = ReaderAt("predict_proba")
            /\ UNCHANGED churn_call
       ELSE /\ pc' = ReaderAt("idle")
            /\ churn_call' = [op |-> "predict_churn_risk", mode |-> "trained",
                              outcome |-> Raised("NotFittedError")]
    /\ UNCHANGED <<model, scaler, is_trained, feature_names, artifact>>
    /\ UNCHANGED <<snapshot_vars, response, insights_scaler>>

\* predict_churn_risk, from line 204: self.model.predict_proba and the result
PredictProba(user_data, churn_prob) ==
    /\ pc.reader = "predict_proba"
    /\ pc' = ReaderAt("idle")
    /\ churn_call' =
            [op |-> "predict_churn_risk", mode |-> "trained",
             outcome |-> IF ~model.fitted THEN Raised("NotFittedError")
                         ELSE IF model.classes < 2 THEN Raised("IndexError")
                         ELSE predict_churn_risk(user_data, << >>, churn_prob)]
    /\ UNCHANGED <<model, scaler, is_trained, feature_names, artifact>>
    /\ UNCHANGED <<snapshot_vars, response, insights_scaler>>

InterleavedNext ==
    \/ TrainBegin
    \/ \E classes \in 0..2 : TrainStatement(classes)
    \/ LoadBegin
    \/ LoadStatement
    \/ \E user_data \in LifecycleUsers : ReadIsTrained(user_data)
    \/ ScalerTransform
    \/ \E user_data \in LifecycleUsers, churn_prob \in LifecycleProbs :
            PredictProba(user_data, churn_prob)

SpecInterleaved == ChurnInit /\ [][InterleavedNext]_vars

----------------------------------------------------------------------------
(* The level analyzer over stored level events *)

\* the longest of the short level-event lists
MaxLevelEvents == 2

\* the events the short lists are made of: perfect and plain completions, failures,
\* two levels, two players, an event without a userId and one without a timestamp
LevelEventVocabulary ==
    {MkLevelEvent("u1", "level_1", 1, TRUE, TRUE, TimeDelta(1), 0),
     MkLevelEvent("u1", "level_1", 1, FALSE, FALSE, TimeDelta(2), 30000),
     MkLevelEvent("u1", "level_1", 1, FALSE, FALSE, TimeDelta(1), 0),
     MkLevelEvent("u2", "level_1", 1, TRUE, FALSE, TimeDelta(1), 700000),
     MkLevelEvent("u2", "level_2", 2, FALSE, FALSE, TimeDelta(3), 30000),
     MkLevelEvent("u1", "level_2", 2, TRUE, FALSE, 0, 60000),
     [MkLevelEvent("u1", "level_1", 1, TRUE, FALSE, 0, 0) EXCEPT !.globalParams = << >>],
     [MkLevelEvent("u1", "level_1", 1, FALSE, FALSE, 0, 0)
        EXCEPT !.globalParams = [userId |-> "u1"]]}

ShortLevelEventLists == UNION {[1..n -> LevelEventVocabulary] : n \in 0..MaxLevelEvents}

\* the players and levels of the long lists
PlayerNames ==
    <<"p01", "p02", "p03", "p04", "p05", "p06", "p07", "p08", "p09", "p10",
      "p11", "p12", "p13", "p14", "p15">>
LevelNames ==
    <<"level_01", "level_02", "level_03", "level_04", "level_05", "level_06",
      "level_07", "level_08", "level_09", "level_10", "level_11", "level_12",
      "level_13", "level_14", "level_15", "level_16", "level_17", "level_18",
      "level_19", "level_20", "level_21", "level_22", "level_23">>

\* one level played by `players` players, the first `completers` of whom complete it
\* at their attempt number `attempts`; every attempt lasts ten minutes
LevelPlays(num, players, completers, attempts) ==
    [i \in 1..(players * attempts) |->
        LET player == ((i - 1) % players) + 1
            attempt == ((i - 1) \div players) + 1
        IN  MkLevelEvent(PlayerNames[player], LevelNames[num], num,
                         attempt = attempts /\ player <= completers, FALSE,
                         TimeDelta(1) * (attempts - attempt + 1), 600000)]

RECURSIVE Concat(_)
Concat(lists) == IF lists = << >> THEN << >> ELSE Head(lists) \o Concat(Tail(lists))

\* a long list: `levels` levels of 11 players with 0..4 completers (their place in
\* that cycle moved by `shift`; 4 completers need two attempts), then a level with
\* 5 completers of 11, a level of 10 players, and a level of 15 players of whom 9
\* complete at their fifth attempt
LongLevelEventList(levels, shift) ==
    Concat([num \in 1..levels |->
                LET completers == (num + shift) % 5
                IN  LevelPlays(num, 11, completers, IF completers = 4 THEN 2 ELSE 1)])
    \o LevelPlays(levels + 1, 11, 5, 1)
    \o LevelPlays(levels + 2, 10, 0, 1)
    \o LevelPlays(levels + 3, 15, 9, 5)

\* the players of the funnel lists
FunnelPlayers ==
    <<"q001", "q002", "q003", "q004", "q005", "q006", "q007", "q008", "q009", "q010",
      "q011", "q012", "q013", "q014", "q015", "q016", "q017", "q018", "q019", "q020",
      "q021", "q022", "q023", "q024", "q025", "q026", "q027", "q028", "q029", "q030",
      "q031", "q032", "q033", "q034", "q035", "q036", "q037", "q038", "q039", "q040",
      "q041", "q042", "q043", "q044", "q045", "q046", "q047", "q048", "q049", "q050",
      "q051", "q052", "q053", "q054", "q055", "q056", "q057", "q058", "q059", "q060",
      "q061", "q062", "q063", "q064", "q065", "q066", "q067", "q068", "q069", "q070",
      "q071", "q072", "q073", "q074", "q075", "q076", "q077", "q078", "q079", "q080",
      "q081", "q082", "q083", "q084", "q085", "q086", "q087", "q088", "q089", "q090",
      "q091", "q092", "q093", "q094", "q095", "q096", "q097", "q098", "q099", "q100">>

\* a funnel list: level number i is played once by each of the first counts[i]
\* players
FunnelEventList(counts) ==
    Concat([num \in 1..Len(counts) |->
                [i \in 1..counts[num] |->
                    MkLevelEvent(FunnelPlayers[i], LevelNames[num], num, TRUE, FALSE,
                                 TimeDelta(1), 60000)]])

\* the funnels: 100 players, then 40, then 50; 10 then 4; 4 then 10
FunnelEventLists ==
    {FunnelEventList(<<100, 40, 50>>), FunnelEventList(<<10, 4>>),
     FunnelEventList(<<4, 10>>)}

\* lists of 23 levels, three more than the 20 busiest that the bottlenecks are
\* taken from
BottleneckEventLists == {LongLevelEventList(20, shift) : shift \in 0..1}

LongLevelCounts == {14, 16, 17}
LongLevelEventLists == {LongLevelEventList(levels, shift) : levels \in LongLevelCounts,
                                                            shift \in 0..2}

LevelsInit ==
    /\ NewPredictor
    /\ NewInsightsEngine
    /\ NoCallInFlight
    /\ artifact = File(FALSE, FALSE, << >>)
    /\ db_users = << >>
    /\ db_game_events = << >>
    /\ db_economy_events = << >>
    /\ db_level_events \in ShortLevelEventLists \cup LongLevelEventLists \cup FunnelEventLists
                          \cup BottleneckEventLists
    /\ response = [op |-> "init"]

\* level_analyzer.analyze_all_levels(level_events) on the stored level events
AnalyzeAllLevels ==
    /\ response' = [op |-> "analyze_all_levels",
                    outcome |-> analyze_all_levels(db_level_events)]
    /\ UNCHANGED <<churn_vars, snapshot_vars, insights_scaler, pc>>

\* level_analyzer.get_level_progression_funnel(level_events) on the stored level events
GetLevelProgressionFunnel ==
    /\ response' = [op |-> "get_level_progression_funnel",
                    outcome |-> get_level_progression_funnel(db_level_events)]
    /\ UNCHANGED <<churn_vars, snapshot_vars, insights_scaler, pc>>

LevelsNext ==
    \/ AnalyzeAllLevels
    \/ GetLevelProgressionFunnel

SpecLevels == LevelsInit /\ [][LevelsNext]_vars

----------------------------------------------------------------------------
(* The difficulty score over its four arguments *)

\* the arguments of _calculate_difficulty_score, as exact quotients: completion and
\* perfect rates (a perfect rate may exceed 1), average attempts, average seconds
DifficultyCompletionRates == {<<0, 1>>, <<3, 10>>, <<1, 2>>, <<2, 3>>, <<1, 1>>}
DifficultyAttempts == {<<0, 1>>, <<1, 1>>, <<5, 1>>, <<15, 2>>, <<10, 1>>, <<12, 1>>}
DifficultyTimes == {<<0, 1>>, <<300, 1>>, <<1201, 2>>, <<600, 1>>, <<900, 1>>}
DifficultyPerfectRates == {<<0, 1>>, <<1, 3>>, <<1, 1>>, <<2, 1>>}

DifficultyInit ==
    /\ NewPredictor
    /\ NewInsightsEngine
    /\ NoCallInFlight
    /\ artifact = File(FALSE, FALSE, << >>)
    /\ db_users = << >>
    /\ db_game_events = << >>
    /\ db_economy_events = << >>
    /\ db_level_events = << >>
    /\ response = [op |-> "init"]

\* one call of level_analyzer._calculate_difficulty_score
CalculateDifficultyScore(completion_rate, avg_attempts, avg_time, perfect_rate) ==
    /\ response' =
            [op |-> "_calculate_difficulty_score",
             completion_rate |-> completion_rate, avg_attempts |-> avg_attempts,
             avg_time |-> avg_time, perfect_rate |-> perfect_rate,
             outcome |-> Returned(_calculate_difficulty_score(completion_rate, avg_attempts,
                                                              avg_time, perfect_rate))]
    /\ UNCHANGED <<churn_vars, snapshot_vars, insights_scaler, pc>>

DifficultyNext ==
    \E completion_rate \in DifficultyCompletionRates, avg_attempts \in DifficultyAttempts,
       avg_time \in DifficultyTimes, perfect_rate \in DifficultyPerfectRates :
        CalculateDifficultyScore(completion_rate, avg_attempts, avg_time, perfect_rate)

SpecDifficulty == DifficultyInit /\ [][DifficultyNext]_vars

----------------------------------------------------------------------------
(* The analytics endpoints over a stored snapshot *)

\* the longest user list of a snapshot
MaxUsers == 2

\* the user profiles of the snapshots: u1 registered 3 days ago and seen yesterday,
\* u2 dormant, u3 at risk, u4 engaged with a tenure of exactly 30 days, u5 without
\* sessions and half a day short of 30 days, u6 in his eighth day, u7 without dates
AnalyticsUsers ==
    {MkUser("u1", TimeDelta(3), TimeDelta(1), 5, 50),
     MkUser("u2", TimeDelta(40), TimeDelta(20), 30, 300),
     MkUser("u3", TimeDelta(45), TimeDelta(10), 3, 30),
     MkUser("u4", TimeDelta(30), 0, 25, 250),
     MkUser("u5", TimeDelta(30) - 1, TimeDelta(2), 0, 0),
     MkUser("u6", TimeDelta(7) + 1, TimeDelta(7) + 1, 1, 10),
     Only(MkUser("u7", 0, 0, 2, 20), {"userId", "totalSessions"})}

\* the user lists: up to MaxUsers different profiles, in any order
AnalyticsUserLists ==
    {users \in UNION {[1..n -> AnalyticsUsers] : n \in 0..MaxUsers} :
        \A i, j \in 1..Len(users) : i # j => users[i] # users[j]}

\* purchases: u1 spends 100 in two purchases, u2 exactly 50, u4 51
SamplePurchases ==
    <<MkEconomyEvent("u1", 60, TimeDelta(1)), MkEconomyEvent("u1", 40, TimeDelta(1)),
      MkEconomyEvent("u2", 50, TimeDelta(21)), MkEconomyEvent("u4", 51, TimeDelta(2))>>

\* sessions: u2 one day after registering, u4 seven days after, u3 thirty days
\* after, and a session without a userId
SampleSessions ==
    <<MkSessionEvent("u2", "s1", TimeDelta(39), 120000),
      MkSessionEvent("u4", "s2", TimeDelta(23), 600000),
      MkSessionEvent("u3", "s3", TimeDelta(15), 60000),
      [MkSessionEvent("u1", "s4", TimeDelta(1), 0) EXCEPT !.globalParams = [sessionId |-> "s4"]]>>

SampleLevelPlays ==
    <<MkLevelEvent("u1", "level_1", 1, TRUE, TRUE, TimeDelta(1), 0),
      MkLevelEvent("u2", "level_2", 2, FALSE, FALSE, TimeDelta(21), 30000),
      MkLevelEvent("u2", "level_3", 3, FALSE, FALSE, TimeDelta(21), 30000)>>

\* level 21, which twelve players try once and nobody completes
SampleDropOff == LevelPlays(21, 12, 0, 1)

\* sessions off the retention targets: u2 plays one day and a tick after the day-1
\* target (firstSeen + 1 day), u3 one day and a tick before the day-7 target
SampleLateSessions ==
    <<MkSessionEvent("u2", "s5", TimeDelta(40) - TimeDelta(1) - TimeDelta(1) - 1, 120000),
      MkSessionEvent("u3", "s6", TimeDelta(45) - TimeDelta(7) + TimeDelta(1) + 1, 60000)>>

\* the event collections of a snapshot: game, level and economy events
AnalyticsEvents ==
    {<< << >>, << >>, << >> >>,
     << SampleLateSessions, << >>, << >> >>,
     << << >>, SampleDropOff, << >> >>,
     << << >>, << >>, SamplePurchases >>,
     << SampleSessions, SampleLevelPlays, << >> >>,
     << SampleSessions, SampleLevelPlays, SamplePurchases >>}

AnalyticsInit ==
    /\ NewPredictor
    /\ NewInsightsEngine
    /\ NoCallInFlight
    /\ artifact = File(FALSE, FALSE, << >>)
    /\ db_users \in AnalyticsUserLists
    /\ \E events \in AnalyticsEvents :
            /\ db_game_events = events[1]
            /\ db_level_events = events[2]
            /\ db_economy_events = events[3]
    /\ response = [op |-> "init"]

\* main.py, all_events = game_events + level_events + economy_events
AllEvents == db_game_events \o db_level_events \o db_economy_events

\* analytics_engine.get_overview_metrics on the stored snapshot
GetOverviewMetrics ==
    /\ response' =
            [op |-> "get_overview_metrics",
             outcome |-> get_overview_metrics(db_users, AllEvents, db_game_events,
                                              db_level_events, db_economy_events)]
    /\ UNCHANGED <<churn_vars, snapshot_vars, insights_scaler, pc>>

\* analytics_engine.get_user_segments on the stored snapshot; segments is the
\* function's dict of user-id lists, of which it returns the sizes
GetUserSegments ==
    /\ response' =
            [op |-> "get_user_segments",
             segments |-> user_segment_lists(db_users, AllEvents),
             outcome |-> get_user_segments(db_users, AllEvents)]
    /\ UNCHANGED <<churn_vars, snapshot_vars, insights_scaler, pc>>

\* main.py get_game_recommendations, lines 332-342: the predictions for users[:50]
\* (an exception of predict_churn_risk ends the loop)
ChurnAnalysis(users, all_events) ==
    LET top == Take(users, 50)
        predictions ==
            [i \in 1..Len(top) |->
                predict_churn_risk(
                    top[i],
                    SelectSeq(all_events,
                              LAMBDA e : UserIdOf(e) = Get(top[i], "userId", NoneVal)),
                    0)]
        failed == {i \in 1..Len(top) : predictions[i].raised # "none"}
    IN  IF failed # {}
        THEN Raised(predictions[CHOOSE i \in failed : \A j \in failed : i <= j].raised)
        ELSE Returned(
            [i \in 1..Len(top) |->
                [user_id |-> Get(top[i], "userId", NoneVal),
                 churn_risk |-> predictions[i].value.churn_risk,
                 churn_probability |-> predictions[i].value.churn_probability]])

\* recommendations['summary'] = {...}
WithSummary(recommendations) ==
    LET summary ==
            [critical_issues |-> Len(recommendations.critical),
             high_priority_items |-> Len(recommendations.high_priority),
             medium_priority_items |-> Len(recommendations.medium_priority),
             positive_insights |-> Len(recommendations.positive_insights),
             total_recommendations |->
                Len(recommendations.critical) + Len(recommendations.high_priority)
                + Len(recommendations.medium_priority) + Len(recommendations.low_priority)]
    IN  [key \in DOMAIN recommendations \cup {"summary"} |->
            IF key = "summary" THEN summary ELSE recommendations[key]]

\* main.py get_game_recommendations: the calls in their order, each result bound
\* once; recommendations is the outcome of generate_comprehensive_recommendations
\* (or of the call that raised before it), outcome is the endpoint's answer, an
\* HTTP 500 when a call raised
GetGameRecommendations ==
    /\ \E overview \in {get_overview_metrics(db_users, AllEvents, db_game_events,
                                             db_level_events, db_economy_events)},
          level_analysis \in {analyze_all_levels(db_level_events)},
          user_segments \in {get_user_segments(db_users, AllEvents)},
          churn_analysis \in {ChurnAnalysis(db_users, AllEvents)} :
            \E recommendations \in
                {IF level_analysis.raised # "none" THEN level_analysis
                 ELSE IF churn_analysis.raised # "none" THEN churn_analysis
                 ELSE generate_comprehensive_recommendations(
                        overview.value, level_analysis.value, churn_analysis.value,
                        user_segments.value)} :
                response' =
                    [op |-> "get_game_recommendations",
                     recommendations |-> recommendations,
                     outcome |->
                        IF recommendations.raised # "none"
                        THEN [raised |-> "HTTPException", value |-> recommendations.raised]
                        ELSE Returned(WithSummary(recommendations.value))]
    /\ UNCHANGED <<churn_vars, snapshot_vars, insights_scaler, pc>>

AnalyticsNext ==
    \/ GetOverviewMetrics
    \/ GetUserSegments
    \/ AnalyzeAllLevels
    \/ GetLevelProgressionFunnel
    \/ GetGameRecommendations

SpecAnalytics == AnalyticsInit /\ [][AnalyticsNext]_vars

----------------------------------------------------------------------------
(* AIInsightsEngine (services/ai_insights_engine.py) *)

\* AIInsightsEngine._identify_whale_candidates; engagement_score
\* (sessions x 0.3 + events x 0.001) is in thousandths
_identify_whale_candidates(users, economy_events) ==
    LET payers == {UserIdOf(economy_events[i]) : i \in 1..Len(economy_events)}
        engaged ==
            SelectSeq(users,
                      LAMBDA user : /\ Get(user, "userId", NoneVal) \notin payers
                                    /\ Get(user, "totalSessions", 0) > 20
                                    /\ Get(user, "totalEvents", 0) > 500)
        candidates ==
            [i \in 1..Len(engaged) |->
                LET total_sessions == Get(engaged[i], "totalSessions", 0)
                    total_events == Get(engaged[i], "totalEvents", 0)
                IN  [user_id |-> Get(engaged[i], "userId", NoneVal),
                     sessions |-> total_sessions,
                     events |-> total_events,
                     engagement_score |-> total_sessions * 300 + total_events,
                     k |-> total_sessions * 300 + total_events]]
        sorted == SortByKeyDesc(candidates)
    IN  Take([i \in 1..Len(sorted) |->
                [key \in DOMAIN sorted[i] \ {"k"} |-> sorted[i][key]]], 10)

\* AIInsightsEngine._ml_player_segmentation: what it returns or raises. The dates
\* of the model are naive datetimes, and datetime.now(timezone.utc) - first_seen
\* raises TypeError on the first profile that has one; the clusters k-means
\* finds are left out of the result
_ml_player_segmentation(users, events) ==
    IF Len(users) < 5
    THEN Returned([status |-> "insufficient_data", min_required |-> 5])
    ELSE IF \E i \in 1..Len(users) : "firstSeen" \in DOMAIN users[i]
    THEN Raised("TypeError")
    ELSE Returned([status |-> "success",
                   n_segments |-> IF Len(users) < 4 THEN Len(users) ELSE 4])

----------------------------------------------------------------------------
(* The insights engine over a stored snapshot *)

\* the profiles: h1, h2, h5 and the g's have more than 20 sessions and more than
\* 500 events, h3 has 20 sessions, h4 has 500 events; the n's carry no dates
InsightsUsers ==
    {MkUser("h1", TimeDelta(40), TimeDelta(1), 25, 600),
     MkUser("h2", TimeDelta(40), TimeDelta(1), 21, 501),
     MkUser("h3", TimeDelta(40), TimeDelta(1), 20, 600),
     MkUser("h4", TimeDelta(40), TimeDelta(1), 30, 500),
     MkUser("h5", TimeDelta(40), TimeDelta(1), 40, 1000)}

InsightsNames ==
    <<"g01", "g02", "g03", "g04", "g05", "g06", "g07", "g08", "g09", "g10", "g11", "g12">>

\* twelve engaged users, the later the more engaged
ManyEngagedUsers ==
    [i \in 1..Len(InsightsNames) |->
        MkUser(InsightsNames[i], TimeDelta(40), TimeDelta(1), 20 + i, 600)]

\* five profiles without dates
DatelessUsers ==
    [i \in 1..5 |->
        Only(MkUser(InsightsNames[i], 0, 0, 3 * i, 30 * i),
             {"userId", "platform", "totalSessions", "totalEvents"})]

InsightsUserLists ==
    {users \in UNION {[1..n -> InsightsUsers] : n \in 0..MaxUsers} :
        \A i, j \in 1..Len(users) : i # j => users[i] # users[j]}
    \cup {ManyEngagedUsers, DatelessUsers,
          [DatelessUsers EXCEPT ![5] = MkUser("h1", TimeDelta(40), TimeDelta(1), 25, 600)]}

\* economy events: a purchase of h1, a spend of h1 without monetary value, a
\* purchase of h5, an event without a userId
InsightsEconomyEvents ==
    {<< >>,
     <<MkEconomyEvent("h1", 5, TimeDelta(1))>>,
     <<MkEconomyEvent("h1", 0, TimeDelta(1))>>,
     <<MkEconomyEvent("h1", 0, TimeDelta(1)), MkEconomyEvent("h5", 10, TimeDelta(2)),
       [MkEconomyEvent("h2", 3, TimeDelta(1)) EXCEPT !.globalParams = [sessionId |-> "s1"]]>>}

InsightsInit ==
    /\ NewPredictor
    /\ NewInsightsEngine
    /\ NoCallInFlight
    /\ artifact = File(FALSE, FALSE, << >>)
    /\ db_users \in InsightsUserLists
    /\ db_game_events = << >>
    /\ db_level_events = << >>
    /\ db_economy_events \in InsightsEconomyEvents
    /\ response = [op |-> "init"]

\* ai_insights_engine._identify_whale_candidates(users, economy_events)
IdentifyWhaleCandidates ==
    /\ response' = [op |-> "_identify_whale_candidates",
                    outcome |-> Returned(_identify_whale_candidates(db_users,
                                                                    db_economy_events))]
    /\ UNCHANGED <<churn_vars, snapshot_vars, insights_scaler, pc>>

\* ai_insights_engine.generate_comprehensive_insights on the stored snapshot, up to
\* its sixth sub-analysis. The stored timestamps are offset-naive datetimes: with
\* any event _predict_engagement_trends compares one with the aware now and raises
\* (line 490) before the segmentation is reached. Without events the sub-analyses
\* before _ml_player_segmentation return, and self.scaler.fit_transform(X) (line
\* 626) fits the engine's scaler when the features of every user have been computed
GenerateComprehensiveInsights ==
    /\ \E outcome \in {IF AllEvents # << >> THEN Raised("TypeError")
                        ELSE _ml_player_segmentation(db_users, AllEvents)} :
        /\ response' = [op |-> "generate_comprehensive_insights",
                        player_segments_ml |-> outcome]
        /\ insights_scaler' =
                IF outcome.raised = "none" /\ outcome.value.status = "success"
                THEN [fitted |-> TRUE] ELSE insights_scaler
    /\ UNCHANGED <<churn_vars, snapshot_vars, pc>>

InsightsNext ==
    \/ IdentifyWhaleCandidates
    \/ GenerateComprehensiveInsights

SpecInsights == InsightsInit /\ [][InsightsNext]_vars

----------------------------------------------------------------------------
(* The claims *)

\* C1: once is_trained has become true it stays true for the rest of the run,
\* whatever train, load_model, save_model and predict_churn_risk calls follow
C1_TrainedStaysTrained == [][is_trained => is_trained']_vars

\* the whole days between lastSeen and now, 0 when the profile has no lastSeen
C6_DaysInactive(user_data) ==
    IF "lastSeen" \in DOMAIN user_data THEN (Now - user_data.lastSeen) \div TicksPerDay ELSE 0

\* the rule-based probability of the claim, per mille
C6_Probability(days, sessions) ==
    CASE days > 14 -> 900
      [] days > 7 /\ days <= 14 -> 700
      [] days > 3 /\ days <= 7 -> 400
      [] days <= 3 /\ sessions < 3 -> 500
      [] OTHER -> 200

\* C6: in rule-based mode predict_churn_risk returns 0.9 if days-inactive > 14,
\* else 0.7 if > 7, else 0.4 if > 3, else 0.5 if total sessions < 3, else 0.2; the
\* band is high above 0.6, medium above 0.3, else low, and never critical; a user
\* inactive for 20 days gets 0.9 and high; confidence is 0.7
C6_RuleBasedPrediction ==
    (churn_call.op = "predict_churn_risk" /\ churn_call.mode = "rule_based") =>
        LET user_data == churn_call.user_data
            days == C6_DaysInactive(user_data)
            sessions ==
                IF "totalSessions" \in DOMAIN user_data THEN user_data.totalSessions ELSE 0
            result == churn_call.outcome.value
            prob == C6_Probability(days, sessions)
        IN  /\ churn_call.outcome.raised = "none"
            /\ result.churn_probability = prob
            /\ result.churn_risk =
                    (IF prob > 600 THEN "high" ELSE IF prob > 300 THEN "medium" ELSE "low")
            /\ result.churn_risk # "critical"
            /\ result.confidence = 700
            /\ days = 20 => (result.churn_probability = 900 /\ result.churn_risk = "high")

\* a rule-based call for a user inactive for 20 days has answered 0.9 and high
C6_Witness ==
    /\ churn_call.op = "predict_churn_risk"
    /\ churn_call.mode = "rule_based"
    /\ C6_DaysInactive(churn_call.user_data) = 20
    /\ churn_call.outcome.raised = "none"
    /\ churn_call.outcome.value.churn_probability = 900
    /\ churn_call.outcome.value.churn_risk = "high"

\* C4: for every non-empty list of level events, every level's difficulty_score
\* in the result of analyze_all_levels lies in [0,100] (scores are in tenths)
C4_DifficultyInRange ==
    (/\ response.op = "analyze_all_levels"
     /\ db_level_events # << >>
     /\ response.outcome.raised = "none") =>
        LET result == response.outcome.value
        IN  /\ \A i \in 1..Len(result.level_stats) :
                    /\ result.level_stats[i].difficulty_score >= 0
                    /\ result.level_stats[i].difficulty_score <= 1000
            /\ \A i \in 1..Len(result.difficulty_scores) :
                    /\ result.difficulty_scores[i].difficulty_score >= 0
                    /\ result.difficulty_scores[i].difficulty_score <= 1000

\* C5: for every list of level events, each level's completion_rate and
\* perfect_completion_rate lie in [0,1] (rates are per mille), also when one player
\* completes the same level perfectly more than once
C5_RatesInUnitInterval ==
    (response.op = "analyze_all_levels" /\ response.outcome.raised = "none") =>
        LET level_stats == response.outcome.value.level_stats
        IN  \A i \in 1..Len(level_stats) :
                /\ level_stats[i].completion_rate >= 0
                /\ level_stats[i].completion_rate <= 1000
                /\ level_stats[i].perfect_completion_rate >= 0
                /\ level_stats[i].perfect_completion_rate <= 1000

\* the levels of an analysis that meet the three drop-off conditions
C7_Qualifying(level_stats) ==
    {i \in 1..Len(level_stats) :
        /\ level_stats[i].completion_rate < 500
        /\ level_stats[i].total_unique_players > 10
        /\ level_stats[i].difficulty_score > 600}

\* C7: a level is in drop_off_levels only if its completion_rate < 0.5, its
\* unique-player count > 10 and its difficulty_score > 60; severity is critical
\* exactly when completion_rate < 0.3, else high; the list holds at most 15
\* entries, the qualifying levels with the lowest completion rates, ascending
C7_DropOffLevels ==
    (response.op = "analyze_all_levels" /\ response.outcome.raised = "none") =>
        LET level_stats == response.outcome.value.level_stats
            drop_off_levels == response.outcome.value.drop_off_levels
            n == Len(drop_off_levels)
            qualifying == C7_Qualifying(level_stats)
            listed == {i \in qualifying :
                        \E d \in 1..n : drop_off_levels[d].level_id = level_stats[i].level_id}
        IN  /\ \A d \in 1..n :
                    /\ \E i \in qualifying :
                            /\ level_stats[i].level_id = drop_off_levels[d].level_id
                            /\ level_stats[i].completion_rate = drop_off_levels[d].completion_rate
                    /\ drop_off_levels[d].completion_rate # 600
                    /\ drop_off_levels[d].severity =
                            (IF drop_off_levels[d].completion_rate < 300 THEN "critical"
                             ELSE "high")
            /\ \A d, e \in 1..n :
                    d < e => /\ drop_off_levels[d].level_id # drop_off_levels[e].level_id
                             /\ drop_off_levels[d].completion_rate
                                    <= drop_off_levels[e].completion_rate
            /\ n <= 15
            /\ n = (IF Cardinality(qualifying) < 15 THEN Cardinality(qualifying) ELSE 15)
            /\ \A i \in qualifying \ listed :
                    \A d \in 1..n :
                        drop_off_levels[d].completion_rate <= level_stats[i].completion_rate

\* an analysis with more than 15 qualifying levels has answered with 15 of them,
\* critical and high, and has left out a level of completion rate 0.6 that has more
\* than 10 players and a difficulty above 60
C7_Witness ==
    /\ response.op = "analyze_all_levels"
    /\ response.outcome.raised = "none"
    /\ Cardinality(C7_Qualifying(response.outcome.value.level_stats)) > 15
    /\ Len(response.outcome.value.drop_off_levels) = 15
    /\ \E d, e \in 1..15 :
            /\ response.outcome.value.drop_off_levels[d].severity = "critical"
            /\ response.outcome.value.drop_off_levels[e].severity = "high"
    /\ \E i \in 1..Len(response.outcome.value.level_stats) :
            LET stats == response.outcome.value.level_stats[i]
            IN  /\ stats.completion_rate = 600
                /\ stats.total_unique_players > 10
                /\ stats.difficulty_score > 600
                /\ \A d \in 1..15 :
                        response.outcome.value.drop_off_levels[d].level_id # stats.level_id

\* the snapshot with no user and no event
C2_EmptySnapshot ==
    /\ db_users = << >>
    /\ db_game_events = << >>
    /\ db_level_events = << >>
    /\ db_economy_events = << >>

\* C2: with an empty user list and empty event lists, get_overview_metrics,
\* get_user_segments, analyze_all_levels and get_level_progression_funnel each
\* return their all-zero/empty structure and none of them raises
C2_EmptyInputsGiveZeroStructures ==
    C2_EmptySnapshot =>
        /\ response.op \in {"get_overview_metrics", "get_user_segments",
                            "analyze_all_levels", "get_level_progression_funnel"}
            => response.outcome.raised = "none"
        /\ response.op = "get_overview_metrics" =>
                /\ response.outcome.value.user_metrics =
                        [total_users |-> 0, dau |-> 0, wau |-> 0, mau |-> 0,
                         new_users_today |-> 0, new_users_this_week |-> 0,
                         dau_mau_ratio |-> 0, avg_sessions_per_user |-> 0,
                         avg_events_per_user |-> 0]
                /\ response.outcome.value.session_metrics =
                        [total_sessions |-> 0, avg_session_duration_minutes |-> 0,
                         median_session_duration_minutes |-> 0,
                         longest_session_minutes |-> 0, total_playtime_hours |-> 0]
                /\ response.outcome.value.level_metrics =
                        [total_level_attempts |-> 0, total_level_completions |-> 0,
                         overall_completion_rate |-> 0, max_level_reached |-> 0,
                         unique_levels_played |-> 0, most_played_levels |-> << >>]
                /\ response.outcome.value.revenue_metrics =
                        [total_revenue |-> 0, total_transactions |-> 0, paying_users |-> 0,
                         avg_transaction_value |-> 0, revenue_per_paying_user |-> 0,
                         virtual_currency_stats |-> << >>]
                /\ DOMAIN response.outcome.value.platform_distribution = {}
                /\ response.outcome.value.retention_rates =
                        [day_1_retention |-> 0, day_7_retention |-> 0,
                         day_30_retention |-> 0, cohort_size |-> 0]
                /\ response.outcome.value.total_events_tracked = 0
        /\ response.op = "get_user_segments" =>
                /\ DOMAIN response.outcome.value =
                        {"whales", "engaged", "casual", "at_risk", "new", "dormant"}
                /\ \A segment \in DOMAIN response.outcome.value :
                        response.outcome.value[segment] = [count |-> 0, percentage |-> 0]
        /\ response.op = "analyze_all_levels" =>
                response.outcome.value =
                    [level_stats |-> << >>, difficulty_scores |-> << >>,
                     drop_off_levels |-> << >>, bottleneck_levels |-> << >>,
                     easiest_levels |-> << >>, hardest_levels |-> << >>,
                     total_levels_analyzed |-> 0]
        /\ response.op = "get_level_progression_funnel" =>
                response.outcome.value =
                    [funnel |-> << >>, total_levels_in_funnel |-> 0,
                     biggest_drop_off |-> << >>]

\* get_user_segments has answered for the empty snapshot, with six zero segments
C2_Witness ==
    /\ C2_EmptySnapshot
    /\ response.op = "get_user_segments"
    /\ response.outcome.raised = "none"
    /\ response.outcome.value.whales.count = 0
    /\ response.outcome.value.dormant.percentage = 0

\* C3: every ratio has a guarded denominator; generate_comprehensive_recommendations,
\* called with the overview metrics of an empty user list (total_users = 0,
\* paying_users = 0), completes without a division-by-zero fault
C3_NoDivisionByZero ==
    (response.op = "get_game_recommendations" /\ db_users = << >>) =>
        /\ response.recommendations.raised # "ZeroDivisionError"
        /\ response.outcome.raised = "none"

\* the lifecycle segments
C8_Lifecycle == {"dormant", "at_risk", "engaged", "casual"}

\* the segments whose list holds the user id
C8_SegmentsOf(user_id) ==
    {segment \in DOMAIN response.segments :
        \E i \in 1..Len(response.segments[segment]) : response.segments[segment][i] = user_id}

\* the sum of the six counts of the answer
C8_TotalCount ==
    response.outcome.value.whales.count + response.outcome.value.new.count
    + response.outcome.value.dormant.count + response.outcome.value.at_risk.count
    + response.outcome.value.engaged.count + response.outcome.value.casual.count

\* C8 as stated: every user is placed in one and only one of the six segments, so
\* the six segment counts sum to the number of users
C8_ExactlyOneSegment ==
    response.op = "get_user_segments" =>
        /\ \A i \in 1..Len(db_users) : Cardinality(C8_SegmentsOf(db_users[i].userId)) = 1
        /\ C8_TotalCount = Len(db_users)

\* C8, amended: every user is placed in at most one of dormant, at-risk, engaged
\* and casual (in none of them when he has no session and was seen in the last 7
\* days) and, besides, in whales and in new or not: in zero to three segments, so
\* the six counts, each the length of its list, sum to at most three times the
\* number of users
C8_ZeroToThreeSegments ==
    response.op = "get_user_segments" =>
        /\ \A i \in 1..Len(db_users) :
                LET mine == C8_SegmentsOf(db_users[i].userId)
                IN  /\ Cardinality(mine \cap C8_Lifecycle) <= 1
                    /\ Cardinality(mine) <= 3
                    /\ (/\ "lastSeen" \in DOMAIN db_users[i]
                        /\ Now - db_users[i].lastSeen < TimeDelta(8)
                        /\ db_users[i].totalSessions = 0) => mine \cap C8_Lifecycle = {}
        /\ \A segment \in DOMAIN response.segments :
                response.outcome.value[segment].count = Len(response.segments[segment])
        /\ C8_TotalCount <= 3 * Len(db_users)

\* get_user_segments has answered for a list with a user in three segments and a
\* user in none: the counts do not sum to the number of users
C8_Witness ==
    /\ response.op = "get_user_segments"
    /\ \E i, j \in 1..Len(db_users) :
            /\ Cardinality(C8_SegmentsOf(db_users[i].userId)) = 3
            /\ C8_SegmentsOf(db_users[j].userId) = {}
    /\ C8_TotalCount # Len(db_users)

\* the money the user's events carry
C9_Spend(user_id) ==
    LET mine == SelectSeq(AllEvents,
                          LAMBDA e : /\ "globalParams" \in DOMAIN e
                                     /\ "userId" \in DOMAIN e.globalParams
                                     /\ e.globalParams.userId = user_id
                                     /\ "realMoneyValue" \in DOMAIN e)
    IN  SumSeq([i \in 1..Len(mine) |-> mine[i].realMoneyValue])

\* C9: dormant, at-risk, engaged and casual are mutually exclusive for every user,
\* chosen by the precedence inactivity > 14 days, inactivity > 7 days, sessions >
\* 20, sessions > 0; whale (spend > 50) and new (tenure <= 7 days) are added
\* independently; a user with spend 100, tenure 3 days and last seen 1 day ago is
\* in whales and new and in neither dormant nor at-risk
C9_SegmentPrecedence ==
    response.op = "get_user_segments" =>
        \A i \in 1..Len(db_users) :
            LET user == db_users[i]
                mine == C8_SegmentsOf(user.userId)
                dated == {"firstSeen", "lastSeen"} \subseteq DOMAIN user
                inactive == (Now - user.lastSeen) \div TicksPerDay
                tenure == (Now - user.firstSeen) \div TicksPerDay
                spend == C9_Spend(user.userId)
            IN  /\ Cardinality(mine \cap C8_Lifecycle) <= 1
                /\ dated =>
                    /\ "dormant" \in mine <=> inactive > 14
                    /\ "at_risk" \in mine <=> (inactive > 7 /\ inactive <= 14)
                    /\ "engaged" \in mine <=> (inactive <= 7 /\ user.totalSessions > 20)
                    /\ "casual" \in mine <=>
                            (inactive <= 7 /\ user.totalSessions > 0 /\ user.totalSessions <= 20)
                    /\ "whales" \in mine <=> spend > 50
                    /\ "new" \in mine <=> tenure <= 7
                    /\ (spend = 100 /\ tenure = 3 /\ inactive = 1) =>
                            /\ {"whales", "new"} \subseteq mine
                            /\ mine \cap {"dormant", "at_risk"} = {}

\* get_user_segments has answered for a user with spend 100, tenure 3 days and last
\* seen 1 day ago: he is in whales and new, in neither dormant nor at-risk
C9_Witness ==
    /\ response.op = "get_user_segments"
    /\ \E i \in 1..Len(db_users) :
            /\ {"firstSeen", "lastSeen"} \subseteq DOMAIN db_users[i]
            /\ C9_Spend(db_users[i].userId) = 100
            /\ Now - db_users[i].firstSeen = TimeDelta(3)
            /\ Now - db_users[i].lastSeen = TimeDelta(1)
            /\ {"whales", "new"} \subseteq C8_SegmentsOf(db_users[i].userId)
            /\ C8_SegmentsOf(db_users[i].userId) \cap {"dormant", "at_risk"} = {}

\* the users of tenure at least 30 days; a profile without firstSeen is as old as
\* dates go
C10_Cohort ==
    SelectSeq(db_users,
              LAMBDA u : "firstSeen" \in DOMAIN u => Now - u.firstSeen >= TimeDelta(30))

\* every user of the cohort has an event one day after firstSeen
C10_AllRetainedAtDay1 ==
    \A i \in 1..Len(C10_Cohort) :
        /\ "firstSeen" \in DOMAIN C10_Cohort[i]
        /\ \E j \in 1..Len(AllEvents) :
                /\ {"userId", "timestamp"} \subseteq DOMAIN AllEvents[j].globalParams
                /\ AllEvents[j].globalParams.userId = C10_Cohort[i].userId
                /\ AllEvents[j].globalParams.timestamp = C10_Cohort[i].firstSeen + TimeDelta(1)

\* C10: the retention cohort is exactly the users of tenure at least 30 days;
\* users of shorter tenure change no retention value; each value is
\* retained / cohort size x 100 (in hundredths of a percent, rounded) and lies in
\* [0,100], 100 for day 1 when every cohort user is retained at day 1; when the
\* cohort is empty the three values and cohort_size are 0
C10_RetentionCohort ==
    response.op = "get_overview_metrics" =>
        LET rates == response.outcome.value.retention_rates
            size == Len(C10_Cohort)
            values == {rates.day_1_retention, rates.day_7_retention, rates.day_30_retention}
        IN  /\ rates.cohort_size = size
            /\ rates = _calculate_retention_rates(C10_Cohort, AllEvents, Now)
            /\ \A v \in values : v >= 0 /\ v <= 10000
            /\ size > 0 => \A v \in values :
                                \E retained \in 0..size : v = RoundDiv(retained * 10000, size)
            /\ (size > 0 /\ C10_AllRetainedAtDay1) => rates.day_1_retention = 10000
            /\ size = 0 => values = {0}

\* get_overview_metrics has answered for a list with a cohort user retained at day
\* 1 and a user of shorter tenure: day-1 retention is 100 and the cohort is smaller
\* than the list
C10_Witness ==
    /\ response.op = "get_overview_metrics"
    /\ Len(C10_Cohort) > 0
    /\ Len(C10_Cohort) < Len(db_users)
    /\ C10_AllRetainedAtDay1
    /\ response.outcome.value.retention_rates.day_1_retention = 10000
    /\ response.outcome.value.retention_rates.cohort_size = Len(C10_Cohort)

\* the cohort users with an event within one day of firstSeen + day days, before
\* or after
C11_RetainedWithinOneDay(day) ==
    SelectSeq(C10_Cohort,
              LAMBDA u :
                \E j \in 1..Len(AllEvents) :
                    LET gp == Get(AllEvents[j], "globalParams", << >>)
                    IN  /\ {"userId", "timestamp"} \subseteq DOMAIN gp
                        /\ gp.userId = Get(u, "userId", NoneVal)
                        /\ Abs(gp.timestamp
                               - (_parse_date(GetOpt(u, "firstSeen")) + TimeDelta(day)))
                             <= TimeDelta(1))

\* C11: a cohort user is retained at horizon d exactly when one of the user's
\* events lies within one day of firstSeen + d days, on either side: each
\* retention value is the share of such users in the cohort
C11_RetentionWindowSymmetric ==
    (response.op = "get_overview_metrics" /\ Len(C10_Cohort) > 0) =>
        LET rates == response.outcome.value.retention_rates
            share(day) == RoundDiv(Len(C11_RetainedWithinOneDay(day)) * 10000, Len(C10_Cohort))
        IN  /\ rates.day_1_retention = share(1)
            /\ rates.day_7_retention = share(7)
            /\ rates.day_30_retention = share(30)

\* the orderings of a list of events
C12_Orderings(events) ==
    LET n == Len(events)
    IN  {[i \in 1..n |-> events[p[i]]] :
            p \in {q \in [1..n -> 1..n] : {q[i] : i \in 1..n} = 1..n}}

\* the metrics of an analysis, by level: the entries of level_stats as a dict
\* (without the order of its keys), and the members of the three rankings
C12_Metrics(outcome) ==
    IF outcome.raised # "none" THEN outcome
    ELSE LET analysis == outcome.value
             members(xs) == {xs[i] : i \in 1..Len(xs)}
         IN  [level_stats |->
                {[key \in DOMAIN stats \ {"top_fail_reasons"} |-> stats[key]] :
                    stats \in members(analysis.level_stats)},
              hardest_levels |-> members(analysis.hardest_levels),
              easiest_levels |-> members(analysis.easiest_levels)]

\* C12: analyze_all_levels returns the same metrics for every ordering of the same
\* level events, avg_attempts_to_complete included when a player's attempts on a
\* level carry equal or missing timestamps
C12_OrderIndependent ==
    (response.op = "analyze_all_levels" /\ Len(db_level_events) <= MaxLevelEvents) =>
        \A events \in C12_Orderings(db_level_events) :
            C12_Metrics(analyze_all_levels(events)) = C12_Metrics(response.outcome)

\* the distinct users with an event on a level number; an event without a userId
\* is the user 'unknown'
C13_Players(level_num) ==
    {Get(Get(db_level_events[j], "globalParams", << >>), "userId", "unknown") :
        j \in {k \in 1..Len(db_level_events) :
                Get(db_level_events[k], "levelNumber", 0) = level_num}}

\* C13: the funnel lists the positive level numbers in ascending order,
\* players_reached is the number of distinct users with an event on the level
\* number, and every step with a successor has drop_off_to_next = players(i) -
\* players(i+1) and drop_off_rate = that difference / players(i), rounded to three
\* decimals (per mille here; 0 when players(i) is 0): 100 then 40 give 0.6
C13_FunnelDropOff ==
    response.op = "get_level_progression_funnel" =>
        LET funnel == response.outcome.value.funnel
            n == Len(funnel)
            players(i) == Cardinality(C13_Players(funnel[i].level_number))
        IN  /\ response.outcome.raised = "none"
            /\ {funnel[i].level_number : i \in 1..n}
                 = {Get(db_level_events[j], "levelNumber", 0) : j \in 1..Len(db_level_events)}
                    \ {0}
            /\ \A i \in 1..n :
                /\ funnel[i].players_reached = players(i)
                /\ i < n =>
                    /\ funnel[i].level_number < funnel[i + 1].level_number
                    /\ funnel[i].drop_off_to_next = players(i) - players(i + 1)
                    /\ funnel[i].drop_off_rate =
                         IF players(i) = 0 THEN 0
                         ELSE RoundDiv((players(i) - players(i + 1)) * 1000, players(i))
                    /\ (players(i) = 100 /\ players(i + 1) = 40) =>
                            funnel[i].drop_off_rate = 600
                /\ i = n => "drop_off_rate" \notin DOMAIN funnel[i]

\* the funnel of 100 players on level 1 and 40 on level 2 has been computed: the
\* first step loses 60 players, a rate of 0.6
C13_Witness ==
    /\ response.op = "get_level_progression_funnel"
    /\ Len(response.outcome.value.funnel) >= 2
    /\ Cardinality(C13_Players(1)) = 100
    /\ Cardinality(C13_Players(2)) = 40
    /\ response.outcome.value.funnel[1].players_reached = 100
    /\ response.outcome.value.funnel[1].drop_off_to_next = 60
    /\ response.outcome.value.funnel[1].drop_off_rate = 600

\* C14: every retention_rate and every drop_off_rate of the funnel lies in [0,1],
\* also when a later level was reached by more players than an earlier one
C14_FunnelRatesInUnitInterval ==
    response.op = "get_level_progression_funnel" =>
        LET funnel == response.outcome.value.funnel
        IN  \A i \in 1..Len(funnel) :
                /\ ~FracLess(funnel[i].retention_rate, <<0, 1>>)
                /\ ~FracLess(<<1, 1>>, funnel[i].retention_rate)
                /\ "drop_off_rate" \in DOMAIN funnel[i] =>
                        funnel[i].drop_off_rate >= 0 /\ funnel[i].drop_off_rate <= 1000

\* the artifact is absent, cannot be unpickled, or lacks a key load_model reads
C15_ArtifactUnusable ==
    \/ ~artifact.exists
    \/ ~artifact.readable
    \/ ~(BlobKeys \subseteq DOMAIN artifact.data)

\* C15: a load attempt on an absent or unreadable artifact (missing file, corrupt
\* content, a blob lacking a required field) leaves a predictor that was untrained
\* in rule-based mode, so that later predictions take the rule-based path
C15_FailedLoadStaysRuleBased ==
    [][(LoadModel /\ C15_ArtifactUnusable /\ ~is_trained) => ~is_trained']_vars

\* C16: for a profile without lastSeen and firstSeen a prediction raises nothing
\* and the missing values are treated as now: the features extracted in trained
\* mode have days-since-last-session 0 and days-since-registration 0, and the
\* rule-based answer is the one of a user inactive for 0 days
C16_MissingTimestampsAreNow ==
    (/\ churn_call.op = "predict_churn_risk"
     /\ {"lastSeen", "firstSeen"} \cap DOMAIN churn_call.user_data = {}) =>
        LET features == extract_features(churn_call.user_data, churn_call.events_data)
        IN  /\ churn_call.outcome.raised = "none"
            /\ churn_call.mode = "trained" =>
                /\ features.days_since_last_session = 0
                /\ features.days_since_registration = 0
            /\ churn_call.mode = "rule_based" =>
                churn_call.outcome.value.churn_probability =
                    IF Get(churn_call.user_data, "totalSessions", 0) < 3 THEN 500 ELSE 200

\* C17: in trained mode the churn_risk band agrees with the churn_probability
\* returned with it (per mille): low below 0.25, medium below 0.5, high below
\* 0.75, critical otherwise
C17_BandMatchesReturnedProbability ==
    (/\ churn_call.op = "predict_churn_risk"
     /\ churn_call.mode = "trained"
     /\ churn_call.outcome.raised = "none") =>
        LET churn_probability == churn_call.outcome.value.churn_probability
        IN  churn_call.outcome.value.churn_risk =
                IF churn_probability < 250 THEN "low"
                ELSE IF churn_probability < 500 THEN "medium"
                ELSE IF churn_probability < 750 THEN "high"
                ELSE "critical"

\* C18: the difficulty is 40 (1 - completion_rate) + 30 min(avg_attempts / 10, 1)
\* + 20 min(avg_time / 600, 1) + 10 (1 - perfect_rate), capped at 100; both sides
\* are compared multiplied by the product k of the denominators; completion rate
\* 0.3, 5 attempts, 300 s and perfect rate 0 give 63
C18_DifficultyFormula ==
    response.op = "_calculate_difficulty_score" =>
        LET c == response.completion_rate
            a == response.avg_attempts
            t == response.avg_time
            p == response.perfect_rate
            k == c[2] * (10 * a[2]) * (600 * t[2]) * p[2]
            min(x, y) == IF x < y THEN x ELSE y
            sum == 40 * (c[2] - c[1]) * (k \div c[2])
                    + 30 * min(a[1], 10 * a[2]) * (k \div (10 * a[2]))
                    + 20 * min(t[1], 600 * t[2]) * (k \div (600 * t[2]))
                    + 10 * (p[2] - p[1]) * (k \div p[2])
            difficulty == response.outcome.value
        IN  /\ response.outcome.raised = "none"
            /\ difficulty[2] > 0
            /\ difficulty[1] * k = difficulty[2] * min(sum, 100 * k)
            /\ (c = <<3, 10>> /\ a = <<5, 1>> /\ t = <<300, 1>> /\ p = <<0, 1>>) =>
                    difficulty[1] = 63 * difficulty[2]

\* the score of the level with completion rate 0.3, 5 attempts on average, 300
\* seconds on average and no perfect completion has been computed: it is 63
C18_Witness ==
    /\ response.op = "_calculate_difficulty_score"
    /\ response.completion_rate = <<3, 10>>
    /\ response.avg_attempts = <<5, 1>>
    /\ response.avg_time = <<300, 1>>
    /\ response.perfect_rate = <<0, 1>>
    /\ response.outcome.value[1] = 63 * response.outcome.value[2]

\* the recommendations a rule added to a bucket: a rule is known by the category
\* and the wording of its issue
C19_FiredBy(bucket, category, template) ==
    SelectSeq(response.outcome.value[bucket],
              LAMBDA item : item.category = category /\ item.issue.template = template)

\* C19: in one call each rule fires 0 or 1 times: no bucket of the result holds
\* two recommendations of the same rule, the critical drop-off rule and the
\* bottleneck rule included
C19_EachRuleFiresAtMostOnce ==
    (response.op = "get_game_recommendations" /\ response.outcome.raised = "none") =>
        \A bucket \in {"critical", "high_priority", "medium_priority", "low_priority"} :
            \A i \in 1..Len(response.outcome.value[bucket]) :
                LET item == response.outcome.value[bucket][i]
                IN  Len(C19_FiredBy(bucket, item.category, item.issue.template)) <= 1

\* the places in level_stats of the 20 levels with the most attempts, levels with
\* as many attempts taken in the order of level_stats
C20_TopTwenty(level_stats) ==
    {i \in 1..Len(level_stats) :
        Cardinality({j \in 1..Len(level_stats) :
                        \/ level_stats[j].total_attempts > level_stats[i].total_attempts
                        \/ /\ level_stats[j].total_attempts = level_stats[i].total_attempts
                           /\ j < i}) < 20}

\* impact_score = total_attempts x (1 - completion_rate), in thousandths
C20_Impact(stats) == stats.total_attempts * (1000 - stats.completion_rate)

\* C20: every bottleneck is one of the 20 levels with the most attempts and has
\* completion_rate < 0.6; its impact_score is total_attempts x (1 -
\* completion_rate); the list is in descending order of impact_score and holds
\* the first 10 of the qualifying levels, so that no omitted qualifying level of
\* the 20 has a higher impact_score than a returned one
C20_Bottlenecks ==
    (response.op = "analyze_all_levels" /\ response.outcome.raised = "none") =>
        LET level_stats == response.outcome.value.level_stats
            bottlenecks == response.outcome.value.bottleneck_levels
            qualifying == {i \in C20_TopTwenty(level_stats) :
                                level_stats[i].completion_rate < 600}
            returned == {i \in 1..Len(level_stats) :
                            \E b \in 1..Len(bottlenecks) :
                                bottlenecks[b].level_id = level_stats[i].level_id}
        IN  /\ returned \subseteq qualifying
            /\ Len(bottlenecks) = Cardinality(returned)
            /\ Len(bottlenecks) =
                 IF Cardinality(qualifying) < 10 THEN Cardinality(qualifying) ELSE 10
            /\ \A b \in 1..Len(bottlenecks) :
                \E i \in returned :
                    /\ bottlenecks[b].level_id = level_stats[i].level_id
                    /\ bottlenecks[b].total_attempts = level_stats[i].total_attempts
                    /\ bottlenecks[b].completion_rate = level_stats[i].completion_rate
                    /\ bottlenecks[b].impact_score = C20_Impact(level_stats[i])
            /\ \A b \in 1..(Len(bottlenecks) - 1) :
                bottlenecks[b].impact_score >= bottlenecks[b + 1].impact_score
            /\ \A i \in qualifying \ returned, b \in 1..Len(bottlenecks) :
                C20_Impact(level_stats[i]) <= bottlenecks[b].impact_score

\* an analysis of more than 20 levels has been computed in which 10 bottlenecks
\* are returned, a level of the 20 busiest is left out for its completion rate,
\* qualifying levels of the 20 are left out by the cut at 10, and a level outside
\* the 20 busiest has a higher impact than a returned one
C20_Witness ==
    /\ response.op = "analyze_all_levels"
    /\ response.outcome.raised = "none"
    /\ LET level_stats == response.outcome.value.level_stats
           bottlenecks == response.outcome.value.bottleneck_levels
           top == C20_TopTwenty(level_stats)
       IN  /\ Len(level_stats) > 20
           /\ Len(bottlenecks) = 10
           /\ \E i \in top : level_stats[i].completion_rate >= 600
           /\ Cardinality({i \in top : level_stats[i].completion_rate < 600}) > 10
           /\ \E i \in (1..Len(level_stats)) \ top :
                /\ level_stats[i].completion_rate < 600
                /\ C20_Impact(level_stats[i]) > bottlenecks[10].impact_score

\* the user has a purchase of positive monetary value
C21_HasPaid(user) ==
    \E i \in 1..Len(db_economy_events) :
        /\ Get(Get(db_economy_events[i], "globalParams", << >>), "userId", NoneVal)
             = Get(user, "userId", NoneVal)
        /\ Get(db_economy_events[i], "realMoneyValue", 0) > 0

\* the non-paying users with more than 20 sessions and more than 500 events
C21_Eligible ==
    SelectSeq(db_users, LAMBDA user : /\ ~C21_HasPaid(user)
                                      /\ Get(user, "totalSessions", 0) > 20
                                      /\ Get(user, "totalEvents", 0) > 500)

\* C21: no returned whale candidate has a purchase of positive value, and every
\* non-paying user with more than 20 sessions and more than 500 events is
\* returned unless ten eligible users have a higher engagement score, also when
\* the user has economy events of zero monetary value
C21_WhaleCandidates ==
    response.op = "_identify_whale_candidates" =>
        LET candidates == response.outcome.value
            returned == {candidates[i].user_id : i \in 1..Len(candidates)}
            score(user) == user.totalSessions * 300 + user.totalEvents
        IN  /\ \A i \in 1..Len(db_users) :
                db_users[i].userId \in returned => ~C21_HasPaid(db_users[i])
            /\ \A i \in 1..Len(C21_Eligible) :
                \/ C21_Eligible[i].userId \in returned
                \/ Cardinality({j \in 1..Len(C21_Eligible) :
                                    score(C21_Eligible[j]) > score(C21_Eligible[i])}) >= 10

\* the family of a reported risk factor, by its wording ("none": the entry that
\* stands for an empty list of factors)
C22_Family(factor) ==
    LET w == factor.words
    IN  CASE w[1] = "Inactive" \/ w[1] = "Reduced" \/ (w[1] = "No" /\ w[2] = "activity")
                -> "inactivity"
          [] w[1] = "Low" /\ w[2] = "level" -> "level_completion"
          [] w[1] = "Low" -> "low_engagement"
          [] w[1] = "Declining" -> "declining_engagement"
          [] w[1] = "No" /\ w[2] = "purchases" -> "no_purchases"
          [] OTHER -> "none"

\* the action strings of a family
C22_Actions(family) ==
    CASE family = "inactivity" ->
            {"Send re-engagement notification with special reward",
             "Offer limited-time bonus or exclusive content"}
      [] family = "level_completion" ->
            {"Provide hints or skip option for difficult levels",
             "Adjust level difficulty based on player skill"}
      [] family = "declining_engagement" ->
            {"Introduce new content or game modes",
             "Create time-limited events to boost engagement"}
      [] family = "no_purchases" ->
            {"Offer first-purchase discount or special offer",
             "Show value of premium features through gameplay"}
      [] family = "low_engagement" ->
            {"Improve onboarding experience", "Add social features or multiplayer modes"}
      [] OTHER -> {}

\* C22: in both modes the recommendations are the single entry 'Continue monitoring
\* player behavior' exactly when no risk factor is reported, and every reported
\* risk factor brings at least one action string of its family
C22_RecommendationsFollowFactors ==
    (churn_call.op = "predict_churn_risk" /\ churn_call.outcome.raised = "none") =>
        LET risk_factors == churn_call.outcome.value.risk_factors
            recommendations == churn_call.outcome.value.recommendations
            families == {C22_Family(risk_factors[i]) : i \in 1..Len(risk_factors)} \ {"none"}
            given == {recommendations[i] : i \in 1..Len(recommendations)}
        IN  /\ (recommendations = <<"Continue monitoring player behavior">>) <=> (families = {})
            /\ \A family \in families : C22_Actions(family) \cap given # {}

\* C23: every scored recommendation carries the floor of its bucket, plus 10 with an
\* impact field, plus 15 with an expected_improvement field, plus min(N // 10, 20)
\* for N players stuck; a critical drop-off recommendation, which reports N players
\* stuck in its impact field, receives that last contribution
C23_Floor == [critical |-> 100, high_priority |-> 70, medium_priority |-> 40,
              low_priority |-> 10, positive_insights |-> 0]

C23_IsDropOff(item) ==
    /\ Get(item, "category", NoneVal) = "Level Difficulty"
    /\ item.issue.template = "Critical drop-off at {} (only {:.1%} complete)"

C23_StuckContribution(item) ==
    LET N == IF C23_IsDropOff(item) THEN item.impact.args[1]
             ELSE Get(Get(item, "metrics", << >>), "players_stuck", 0)
    IN  IF N \div 10 < 20 THEN N \div 10 ELSE 20

C23_PriorityScore ==
    (response.op = "get_game_recommendations" /\ response.recommendations.raised = "none") =>
        \A priority \in Buckets :
            \A i \in 1..Len(response.recommendations.value[priority]) :
                LET item == response.recommendations.value[priority][i]
                IN  item.priority_score =
                        C23_Floor[priority]
                        + (IF "impact" \in DOMAIN item THEN 10 ELSE 0)
                        + (IF "expected_improvement" \in DOMAIN item THEN 15 ELSE 0)
                        + C23_StuckContribution(item)

\* C24: no analytic operation changes state of an engine instance that outlives the
\* call: the insights engine's scaler and the churn predictor's model, scaler,
\* is_trained and feature_names are after the call what they were before it
C24_OperationsArePure ==
    [][/\ insights_scaler' = insights_scaler
       /\ model' = model
       /\ scaler' = scaler
       /\ is_trained' = is_trained
       /\ feature_names' = feature_names]_vars

\* C25: with predictions interleaved statement by statement with a first train() or
\* load_model() on a new predictor, a prediction past the is_trained test runs with
\* a fitted scaler and a fitted classifier, and is_trained is true only when both
\* are in place
C25_TrainedPathHasBoth ==
    /\ pc.reader \in {"transform", "predict_proba"} => scaler.fitted /\ model.fitted
    /\ is_trained => scaler.fitted /\ model.fitted

\* a prediction is on the trained path while load_model has not yet assigned
\* feature_names
C25_Witness ==
    /\ pc.reader = "predict_proba"
    /\ pc.writer = "load"
    /\ pc.at = 4

\* C26: a load_model call that ends with an exception leaves model, scaler,
\* is_trained and feature_names as they were before the call
C26_FailedLoadChangesNothing ==
    [][(churn_call'.op = "load_model" /\ churn_call'.outcome.raised # "none") =>
            /\ model' = model
            /\ scaler' = scaler
            /\ is_trained' = is_trained
            /\ feature_names' = feature_names]_vars

\* C27: in the result of analyze_all_levels no level identifier is both in
\* hardest_levels and in easiest_levels, whatever the number of analysed levels
C27_HardestAndEasiestDisjoint ==
    (response.op = "analyze_all_levels" /\ response.outcome.raised = "none") =>
        LET hardest_levels == response.outcome.value.hardest_levels
            easiest_levels == response.outcome.value.easiest_levels
        IN  {hardest_levels[i] : i \in 1..Len(hardest_levels)}
            \cap {easiest_levels[i] : i \in 1..Len(easiest_levels)} = {}

\* C28: for every user list get_overview_metrics reports dau <= wau <= mau <=
\* total_users and new_users_today <= new_users_this_week, and dau_mau_ratio (in
\* thousandths) lies between 0 and 1 and is 0 when mau is 0
C28_ActivityCountsNested ==
    (response.op = "get_overview_metrics" /\ response.outcome.raised = "none") =>
        LET user_metrics == response.outcome.value.user_metrics
        IN  /\ user_metrics.dau <= user_metrics.wau
            /\ user_metrics.wau <= user_metrics.mau
            /\ user_metrics.mau <= user_metrics.total_users
            /\ user_metrics.new_users_today <= user_metrics.new_users_this_week
            /\ user_metrics.dau_mau_ratio >= 0
            /\ user_metrics.dau_mau_ratio <= 1000
            /\ user_metrics.mau = 0 => user_metrics.dau_mau_ratio = 0

\* one of two monthly active users is active today, and one of the users has no
\* dates at all or was last seen more than a month ago
C28_Witness ==
    /\ response.op = "get_overview_metrics"
    /\ response.outcome.raised = "none"
    /\ response.outcome.value.user_metrics.dau = 1
    /\ response.outcome.value.user_metrics.mau = 2
    /\ response.outcome.value.user_metrics.dau_mau_ratio = 500

\* C29: in every result of generate_comprehensive_recommendations every critical
\* item scores more than every high_priority item, every high_priority item more
\* than every medium_priority item, and every positive insight scores 0
C29_Scores(priority) ==
    {response.recommendations.value[priority][i].priority_score :
        i \in 1..Len(response.recommendations.value[priority])}

C29_ScoresFollowBuckets ==
    (response.op = "get_game_recommendations" /\ response.recommendations.raised = "none") =>
        /\ \A c \in C29_Scores("critical") : \A h \in C29_Scores("high_priority") : c > h
        /\ \A h \in C29_Scores("high_priority") : \A m \in C29_Scores("medium_priority") : h > m
        /\ \A p \in C29_Scores("positive_insights") : p = 0

\* a result with the lowest critical score (a drop-off, 110), the highest
\* high_priority score (80), a medium_priority item and a positive insight
C29_Witness ==
    /\ response.op = "get_game_recommendations"
    /\ response.recommendations.raised = "none"
    /\ 110 \in C29_Scores("critical")
    /\ 80 \in C29_Scores("high_priority")
    /\ C29_Scores("medium_priority") # {}
    /\ C29_Scores("positive_insights") # {}

\* C30: the 'Limited content' recommendation is emitted only when the greatest
\* level number among the analysed levels is below 20, and the count it reports is
\* that greatest level number
C30_GreatestLevelNumber ==
    MaxSeq(<<0>> \o [i \in 1..Len(db_level_events) |->
                        Get(db_level_events[i], "levelNumber", 0)])

C30_LimitedContentMatchesLevels ==
    (response.op = "get_game_recommendations" /\ response.recommendations.raised = "none") =>
        \A i \in 1..Len(response.recommendations.value.high_priority) :
            LET item == response.recommendations.value.high_priority[i]
            IN  item.issue.template = "Limited content ({} levels)" =>
                    /\ C30_GreatestLevelNumber < 20
                    /\ item.issue.args = <<C30_GreatestLevelNumber>>

====
